---- MODULE Spec2Model ----
(***************************************************************************)
(* Model of the OAuth 2.0 authorization server of mcp_server_odoo          *)
(* (src/mcp_server_odoo/oauth.py) and of the /oauth/token endpoint that    *)
(* wraps it (src/mcp_server_odoo/http_server.py).                          *)
(*                                                                         *)
(* Opaque random strings (secrets.token_urlsafe) are modelled as fresh     *)
(* natural numbers drawn from the counter nextId; 0 stands for Python's    *)
(* None / an absent value.  Time (time.time()) is the integer now, in      *)
(* seconds; one call of a method reads one instant.                        *)
(***************************************************************************)
EXTENDS Integers, Sequences, FiniteSets, TLC

VARIABLES
    oauth_codes,      \* oauth.py:13   code -> code record
    oauth_tokens,     \* oauth.py:14   access token -> token record
    oauth_clients,    \* oauth.py:15   dynamic client_id -> client record
    client_secret,    \* oauth.py:23   self.client_secret of the static client
    now,              \* time.time()
    ticks,            \* number of clock advances so far
    nextId,           \* next value secrets.token_urlsafe will return
    requests,         \* /oauth/token requests, in order of receipt, with their responses
    grants,           \* history: code -> number of successful exchanges of it
    chain,            \* history: access token -> the code its refresh chain started
                      \*          from, how and when it was minted
    rotated,          \* history: <<access, refresh>> pairs replaced by a refresh
    lapsed,           \* history: codes dropped by an exchange that found them expired
    evicted,          \* history: tokens dropped by a validation that found them expired
    observed,         \* test harness: what the call just made presented to
                      \* exchange_code_for_token and what was raised
    max_retries,      \* odoo_client.py:46  settings.odoo_max_retries
    _uid,             \* odoo_client.py:48  OdooClient instance -> its self._uid
    audit,            \* history: OdooClient instance -> what its authenticate() did
    last,             \* history: the Odoo operation just made and what it returned
    ops,              \* number of Odoo operations made so far
    redis_client,     \* cache.py:14   whether the CacheManager has a Redis client
    local_cache,      \* cache.py:16   key -> value
    redis,            \* the Redis database: key -> serialized value and expiry
    written,          \* history: key -> what the last set of it was asked to keep
    run,              \* the execute_kw call in progress: where it is and what it has done
    tasks             \* the requests in flight on the event loop: task -> where it is

caching == <<redis_client, local_cache, redis, written>>

gateway == <<max_retries, _uid, audit, last, ops, caching, run, tasks>>

oauth == <<oauth_codes, oauth_tokens, oauth_clients, client_secret, now, ticks,
           nextId, requests, grants, chain, rotated, lapsed, evicted, observed>>

vars == <<oauth_codes, oauth_tokens, oauth_clients, client_secret, now, ticks,
          nextId, requests, grants, chain, rotated, lapsed, evicted, observed,
          max_retries, _uid, audit, last, ops,
          redis_client, local_cache, redis, written, run, tasks>>

----------------------------------------------------------------------------
(* Bounds of the model *)

MaxIds == 7          \* largest value the random source returns
MaxTicks == 1        \* clock advances
MaxRequests == 3     \* /oauth/token requests received
MaxHarnessIds == 6   \* largest random value drawn under the exchange harness
MaxChainIds == 10    \* largest random value drawn in the refresh-chain specification
MaxRetries == 3      \* largest configured odoo_max_retries
MaxOps == 2          \* Odoo operations made
MaxCacheOps == 2     \* operations made on the cached gateway
MaxCalls == 3        \* requests received by the event loop

(* Program constants *)

code_expiry_seconds == 600
token_expiry_seconds == 86400
None == 0
static_client_id == 1        \* stands for "chatgpt-odoo-mcp"
default_max_retries == 3     \* config.py:17
app_client == 0              \* the OdooClient that create_app builds

STATIC_REDIRECT_URIS ==
    <<"https://chatgpt.com/oauth/callback", "https://chat.openai.com/oauth/callback">>
DEFAULT_SCOPE == "odoo:read odoo:write"

(* Inputs the environment may supply *)

Ids == 1..MaxIds
URIs == {"https://chatgpt.com/oauth/callback", "https://x/cb"}
ScopesOf(c) == IF c = static_client_id THEN {""} ELSE {"odoo:read"}
                                           \* "" stands for an omitted scope, which
                                           \* is what the static client sends
States == {""}
RedirectLists == {<<>>, <<"https://x/cb">>}
(* A redirect_uris argument: a list, or a value of another type that is empty
   (None) or not (a string). *)
RedirectInputs == {[list |-> TRUE, items |-> l] : l \in RedirectLists}
                  \cup {[list |-> FALSE, items |-> <<>>],
                        [list |-> FALSE, items |-> <<"https://x/cb">>]}
(* An optional list argument: {} when omitted, else the set of the one list
   given. *)
Omitted == {}
GrantTypeInputs == {Omitted, {<<"authorization_code">>}, {<<>>}}
ResponseTypeInputs == {Omitted, {<<"code", "token">>}}
AuthMethods == {"none", "client_secret_basic"}
Drawn == 1..(nextId - 1)                   \* every opaque value in existence
ClientIds == {static_client_id, client_secret} \cup DOMAIN oauth_clients
                                           \* the registered ids and an unregistered one
Codes == DOMAIN oauth_codes \cup DOMAIN grants \cup {client_secret}
                                           \* stored, redeemed and never issued
AccessTokens == DOMAIN oauth_tokens \cup {p[1] : p \in rotated} \cup {client_secret}
RefreshTokens == {oauth_tokens[t].refresh_token : t \in DOMAIN oauth_tokens}
                 \cup {p[2] : p \in rotated} \cup {client_secret}

----------------------------------------------------------------------------
(* Python dict helpers *)

Put(d, k, v) == [x \in DOMAIN d \cup {k} |-> IF x = k THEN v ELSE d[x]]
Del(d, k) == [x \in DOMAIN d \ {k} |-> d[x]]
InList(x, l) == \E i \in 1..Len(l) : l[i] = x
Min(S) == CHOOSE x \in S : \A y \in S : x <= y
Count(d, k) == IF k \in DOMAIN d THEN d[k] ELSE 0

NoToken == [access_token |-> 0, token_type |-> "", expires_in |-> 0,
            refresh_token |-> 0, scope |-> ""]

----------------------------------------------------------------------------
(* OAuthManager.get_client: the static client, else the dynamic one, else None
   (the record NoClient). *)

NoClient == [client_id |-> None, client_secret |-> None, redirect_uris |-> <<>>,
             token_endpoint_auth_method |-> ""]

get_client(client_id) ==
    IF client_id = static_client_id
    THEN [client_id |-> static_client_id, client_secret |-> client_secret,
          redirect_uris |-> STATIC_REDIRECT_URIS,
          token_endpoint_auth_method |-> "client_secret_basic"]
    ELSE IF client_id \in DOMAIN oauth_clients
         THEN oauth_clients[client_id]
         ELSE NoClient

SecretsFor(c) == {None, client_secret, get_client(c).client_secret}
                                           \* absent, the static one, the client's own

(* The callers of the model present a code or a refresh token as its owner or
   as an unregistered client. *)
CallersOfCode(k) ==
    IF k \in DOMAIN oauth_codes THEN {oauth_codes[k].client_id, client_secret}
    ELSE {static_client_id}
CallersOfRefresh(r) ==
    {oauth_tokens[t].client_id : t \in {x \in DOMAIN oauth_tokens :
                                            oauth_tokens[x].refresh_token = r}}
    \cup {client_secret}

(* A faulty variant of the operator below whose outcome depends on the value
   of the stored secret: only a secret that sorts below it is refused. *)
SecretRejectedOrdered(client, secret) ==
    /\ client.token_endpoint_auth_method # "none"
    /\ secret < client.client_secret

(* A faulty variant of the operator below: an absent secret is refused for
   every client. *)
SecretRejectedAbsent(client, secret) ==
    \/ secret = None
    \/ /\ client.token_endpoint_auth_method # "none"
       /\ secret # client.client_secret

(* The secret test shared by exchange and refresh (oauth.py:103-107, 196-200). *)
SecretRejected(client, secret) ==
    /\ client.token_endpoint_auth_method # "none"
    /\ secret # client.client_secret

----------------------------------------------------------------------------
(* OAuthManager.register_client *)

RegisterError(redirect_uris) ==
    IF redirect_uris.items = <<>> \/ ~redirect_uris.list
    THEN "redirect_uris must be a non-empty list"
    ELSE ""

(* A faulty variant of the operator below: public clients get a secret too. *)
NewClientSecretAlways(auth_method) == nextId + 1

(* The secret of oauth.py:244: none for a public client, else the second value
   drawn. *)
NewClientSecret(auth_method) ==
    IF auth_method = "none" THEN None ELSE nextId + 1

OrDefault(optional, default) ==
    IF optional = Omitted THEN default ELSE CHOOSE x \in optional : TRUE

(* The record stored at oauth.py:259-271; client_name, scope and
   client_id_issued_at are left out. *)
ClientData(redirect_uris, grant_types, response_types, auth_method) ==
    [client_id |-> nextId,
     client_secret |-> NewClientSecret(auth_method),
     redirect_uris |-> redirect_uris.items,
     grant_types |-> OrDefault(grant_types, <<"authorization_code", "refresh_token">>),
     response_types |-> OrDefault(response_types, <<"code">>),
     token_endpoint_auth_method |-> auth_method]

(* The client store after the call. *)
ClientsAfterRegister(redirect_uris, grant_types, response_types, auth_method) ==
    IF RegisterError(redirect_uris) # ""
    THEN oauth_clients
    ELSE Put(oauth_clients, nextId,
             ClientData(redirect_uris, grant_types, response_types, auth_method))

(* What register_client returns (oauth.py:281-295): the raised message, or the
   response, which has a client_secret key only when a secret was generated. *)
RegisterReturn(redirect_uris, grant_types, response_types, auth_method) ==
    LET data == ClientData(redirect_uris, grant_types, response_types, auth_method)
        base == [client_id |-> data.client_id,
                 redirect_uris |-> data.redirect_uris,
                 grant_types |-> data.grant_types,
                 response_types |-> data.response_types,
                 token_endpoint_auth_method |-> data.token_endpoint_auth_method]
    IN  [error |-> RegisterError(redirect_uris),
         response |-> IF RegisterError(redirect_uris) # "" THEN <<>>
                      ELSE IF data.client_secret # None
                           THEN base @@ ("client_secret" :> data.client_secret)
                           ELSE base]

(* client_id and client_secret are drawn before redirect_uris is validated
   (oauth.py:243-244); the values a rejected call drew are discarded, so the
   model draws them only for a call that stores the client. *)
register_client(redirect_uris, grant_types, response_types, auth_method) ==
    /\ oauth_clients' =
           ClientsAfterRegister(redirect_uris, grant_types, response_types, auth_method)
    /\ nextId' = IF RegisterError(redirect_uris) # "" THEN nextId
                 ELSE IF NewClientSecret(auth_method) = None THEN nextId + 1
                 ELSE nextId + 2
    /\ UNCHANGED <<oauth_codes, oauth_tokens, client_secret,
                   grants, chain, rotated, lapsed, evicted>>

----------------------------------------------------------------------------
(* OAuthManager.generate_authorization_code *)

(* A faulty variant of the operator below: any redirect_uri is accepted. *)
GenerateErrorUnchecked(client_id, redirect_uri) == ""

GenerateErrorAnyRedirect(client_id, redirect_uri) ==
    IF get_client(client_id) = NoClient THEN "Invalid client_id" ELSE ""

(* The checks of oauth.py:37-45; "" when both pass. *)
GenerateError(client_id, redirect_uri) ==
    IF get_client(client_id) = NoClient THEN "Invalid client_id"
    ELSE IF ~InList(redirect_uri, get_client(client_id).redirect_uris)
         THEN "Unauthorized redirect_uri"
    ELSE ""

(* The code store after the call: a rejected call stores nothing, an accepted
   one stores the record of oauth.py:51-58 under the value drawn next. *)
CodesAfterGenerate(client_id, redirect_uri, state, scope) ==
    IF GenerateError(client_id, redirect_uri) # ""
    THEN oauth_codes
    ELSE Put(oauth_codes, nextId,
             [client_id |-> client_id, redirect_uri |-> redirect_uri,
              state |-> state,
              scope |-> IF scope = "" THEN DEFAULT_SCOPE ELSE scope,
              created_at |-> now,
              expires_at |-> now + code_expiry_seconds])

generate_authorization_code(client_id, redirect_uri, state, scope) ==
    LET err == GenerateError(client_id, redirect_uri)
    IN  /\ oauth_codes' = CodesAfterGenerate(client_id, redirect_uri, state, scope)
        /\ nextId' = IF err # "" THEN nextId ELSE nextId + 1
        /\ UNCHANGED <<oauth_tokens, oauth_clients, client_secret,
                       grants, chain, rotated, lapsed, evicted>>

----------------------------------------------------------------------------
(* OAuthManager.exchange_code_for_token *)

(* Three faulty variants of the checks below: one treats the instant
   expires_at as already expired, one tests the redirect URI before the
   secret, one never tests the redirect URI. *)
ExchangeErrorInclusive(code, client_id, secret, redirect_uri) ==
    IF code \notin DOMAIN oauth_codes THEN "Invalid authorization code"
    ELSE IF now >= oauth_codes[code].expires_at THEN "Authorization code expired"
    ELSE IF oauth_codes[code].client_id # client_id THEN "Client ID mismatch"
    ELSE IF get_client(client_id) = NoClient THEN "Client not found"
    ELSE IF SecretRejected(get_client(client_id), secret) THEN "Invalid client secret"
    ELSE IF oauth_codes[code].redirect_uri # redirect_uri THEN "Redirect URI mismatch"
    ELSE ""

ExchangeErrorRedirectFirst(code, client_id, secret, redirect_uri) ==
    IF code \notin DOMAIN oauth_codes THEN "Invalid authorization code"
    ELSE IF now > oauth_codes[code].expires_at THEN "Authorization code expired"
    ELSE IF oauth_codes[code].client_id # client_id THEN "Client ID mismatch"
    ELSE IF get_client(client_id) = NoClient THEN "Client not found"
    ELSE IF oauth_codes[code].redirect_uri # redirect_uri THEN "Redirect URI mismatch"
    ELSE IF SecretRejected(get_client(client_id), secret) THEN "Invalid client secret"
    ELSE ""

ExchangeErrorAnyRedirect(code, client_id, secret, redirect_uri) ==
    IF code \notin DOMAIN oauth_codes THEN "Invalid authorization code"
    ELSE IF now > oauth_codes[code].expires_at THEN "Authorization code expired"
    ELSE IF oauth_codes[code].client_id # client_id THEN "Client ID mismatch"
    ELSE IF get_client(client_id) = NoClient THEN "Client not found"
    ELSE IF SecretRejected(get_client(client_id), secret) THEN "Invalid client secret"
    ELSE ""

(* The checks of oauth.py:78-112 in their order; "" when all pass. *)
ExchangeError(code, client_id, secret, redirect_uri) ==
    IF code \notin DOMAIN oauth_codes THEN "Invalid authorization code"
    ELSE IF now > oauth_codes[code].expires_at THEN "Authorization code expired"
    ELSE IF oauth_codes[code].client_id # client_id THEN "Client ID mismatch"
    ELSE IF get_client(client_id) = NoClient THEN "Client not found"
    ELSE IF SecretRejected(get_client(client_id), secret) THEN "Invalid client secret"
    ELSE IF oauth_codes[code].redirect_uri # redirect_uri THEN "Redirect URI mismatch"
    ELSE ""

(* A faulty variant of the operator below: the record takes the default scope
   instead of the scope bound to the code. *)
IssuedTokenDefaultScope(client_id, scope, refresh_token) ==
    [client_id |-> client_id, scope |-> DEFAULT_SCOPE, created_at |-> now,
     expires_at |-> now + token_expiry_seconds, refresh_token |-> refresh_token]

(* The token record of oauth.py:119-125 and 207-213. *)
IssuedToken(client_id, scope, refresh_token) ==
    [client_id |-> client_id, scope |-> scope, created_at |-> now,
     expires_at |-> now + token_expiry_seconds, refresh_token |-> refresh_token]

TokenResponse(access_token, refresh_token, scope) ==
    [access_token |-> access_token, token_type |-> "Bearer",
     expires_in |-> token_expiry_seconds, refresh_token |-> refresh_token,
     scope |-> scope]

(* What exchange_code_for_token returns: the raised message, or the response
   built from the two values drawn next (oauth.py:115-116, 137-143). *)
ExchangeReturn(code, client_id, secret, redirect_uri) ==
    LET err == ExchangeError(code, client_id, secret, redirect_uri)
    IN  [error |-> err,
         token |-> IF err # "" THEN NoToken
                   ELSE TokenResponse(nextId, nextId + 1, oauth_codes[code].scope)]

(* A faulty variant of the operator below: every rejected presentation of a
   stored code consumes it. *)
CodesAfterExchangeBurnt(code, client_id, secret, redirect_uri) == Del(oauth_codes, code)

(* A faulty variant of the operator below: a redeemed code stays stored. *)
CodesAfterExchangeKept(code, client_id, secret, redirect_uri) ==
    IF ExchangeError(code, client_id, secret, redirect_uri) = "Authorization code expired"
    THEN Del(oauth_codes, code)
    ELSE oauth_codes

(* The code store after the call: an expired code is dropped (oauth.py:87), a
   redeemed code is dropped (oauth.py:128), any other rejection keeps it. *)
CodesAfterExchange(code, client_id, secret, redirect_uri) ==
    LET err == ExchangeError(code, client_id, secret, redirect_uri)
    IN  IF err \in {"", "Authorization code expired"}
        THEN Del(oauth_codes, code)
        ELSE oauth_codes

(* The token store after the call (oauth.py:119-125). *)
TokensAfterExchange(code, client_id, secret, redirect_uri) ==
    LET ret == ExchangeReturn(code, client_id, secret, redirect_uri)
    IN  IF ret.error # ""
        THEN oauth_tokens
        ELSE Put(oauth_tokens, ret.token.access_token,
                 IssuedToken(client_id, oauth_codes[code].scope,
                             ret.token.refresh_token))

exchange_code_for_token(code, client_id, secret, redirect_uri) ==
    LET err == ExchangeError(code, client_id, secret, redirect_uri)
    IN  /\ oauth_codes' = CodesAfterExchange(code, client_id, secret, redirect_uri)
        /\ oauth_tokens' = TokensAfterExchange(code, client_id, secret, redirect_uri)
        /\ UNCHANGED <<oauth_clients, client_secret, rotated, evicted>>
        /\ IF err # ""
           THEN /\ lapsed' = IF err = "Authorization code expired"
                             THEN lapsed \cup {code} ELSE lapsed
                /\ UNCHANGED <<nextId, grants, chain>>
           ELSE /\ nextId' = nextId + 2
                /\ grants' = Put(grants, code, Count(grants, code) + 1)
                /\ chain' = Put(chain, nextId,
                                [code |-> code, by |-> "exchange", minted_at |-> now])
                /\ UNCHANGED lapsed

----------------------------------------------------------------------------
(* OAuthManager.validate_token *)

(* A faulty variant of the operator below: the instant expires_at counts as
   expired. *)
TokenValidInclusive(access_token) ==
    /\ access_token \in DOMAIN oauth_tokens
    /\ ~(now >= oauth_tokens[access_token].expires_at)

(* What validate_token returns (oauth.py:152-161). *)
TokenValid(access_token) ==
    /\ access_token \in DOMAIN oauth_tokens
    /\ ~(now > oauth_tokens[access_token].expires_at)

(* The token store after validate_token: an expired record is evicted. *)
TokensAfterValidate(access_token) ==
    IF access_token \in DOMAIN oauth_tokens
       /\ now > oauth_tokens[access_token].expires_at
    THEN Del(oauth_tokens, access_token)
    ELSE oauth_tokens

validate_token(access_token) ==
    /\ oauth_tokens' = TokensAfterValidate(access_token)
    /\ evicted' = IF access_token \in DOMAIN oauth_tokens /\ ~TokenValid(access_token)
                  THEN evicted \cup {access_token} ELSE evicted
    /\ UNCHANGED <<oauth_codes, oauth_clients, client_secret, nextId,
                   grants, chain, rotated, lapsed>>

----------------------------------------------------------------------------
(* OAuthManager.refresh_access_token *)

(* The linear scan of oauth.py:172-176: the first record, in insertion order,
   holding the refresh token; None when there is none.  Keys are drawn from an
   increasing counter, so insertion order is key order. *)
FindByRefresh(refresh_token) ==
    LET hits == {t \in DOMAIN oauth_tokens :
                    oauth_tokens[t].refresh_token = refresh_token}
    IN  IF hits = {} THEN None ELSE Min(hits)

(* A faulty variant of the operator below: the record's client_id is never
   compared with the supplied one. *)
RefreshErrorExpiring(refresh_token, client_id, secret) ==
    LET old_token == FindByRefresh(refresh_token)
    IN  IF old_token = None THEN "Invalid refresh token"
        ELSE IF now > oauth_tokens[old_token].expires_at THEN "Invalid refresh token"
        ELSE IF oauth_tokens[old_token].client_id # client_id THEN "Client ID mismatch"
        ELSE IF get_client(client_id) = NoClient THEN "Client not found"
        ELSE IF SecretRejected(get_client(client_id), secret)
             THEN "Invalid client secret"
        ELSE ""

RefreshErrorAnyClient(refresh_token, client_id, secret) ==
    LET old_token == FindByRefresh(refresh_token)
    IN  IF old_token = None THEN "Invalid refresh token"
        ELSE IF get_client(client_id) = NoClient THEN "Client not found"
        ELSE IF SecretRejected(get_client(client_id), secret)
             THEN "Invalid client secret"
        ELSE ""

(* The checks of oauth.py:172-200 in their order; "" when all pass. *)
RefreshError(refresh_token, client_id, secret) ==
    LET old_token == FindByRefresh(refresh_token)
    IN  IF old_token = None THEN "Invalid refresh token"
        ELSE IF oauth_tokens[old_token].client_id # client_id THEN "Client ID mismatch"
        ELSE IF get_client(client_id) = NoClient THEN "Client not found"
        ELSE IF SecretRejected(get_client(client_id), secret)
             THEN "Invalid client secret"
        ELSE ""

(* What refresh_access_token returns (oauth.py:203-204, 220-226). *)
RefreshReturn(refresh_token, client_id, secret) ==
    LET err == RefreshError(refresh_token, client_id, secret)
    IN  [error |-> err,
         token |-> IF err # "" THEN NoToken
                   ELSE TokenResponse(nextId, nextId + 1,
                            oauth_tokens[FindByRefresh(refresh_token)].scope)]

(* A faulty variant of the operator below: the new record is stored under the
   old access token. *)
RotateInPlace(old_token, new_access_token, record) ==
    Put(oauth_tokens, old_token, record)

(* A faulty variant of the operator below: the old record is never deleted. *)
RotateInsertOnly(old_token, new_access_token, record) ==
    Put(oauth_tokens, new_access_token, record)

(* The token store after a successful refresh: insert the new record
   (oauth.py:207), then delete the old one (oauth.py:216). *)
Rotate(old_token, new_access_token, record) ==
    Del(Put(oauth_tokens, new_access_token, record), old_token)

(* The token store after the call. *)
TokensAfterRefresh(refresh_token, client_id, secret) ==
    LET ret == RefreshReturn(refresh_token, client_id, secret)
        old_token == FindByRefresh(refresh_token)
    IN  IF ret.error # ""
        THEN oauth_tokens
        ELSE Rotate(old_token, ret.token.access_token,
                    IssuedToken(client_id, oauth_tokens[old_token].scope,
                                ret.token.refresh_token))

refresh_access_token(refresh_token, client_id, secret) ==
    LET err == RefreshError(refresh_token, client_id, secret)
        old_token == FindByRefresh(refresh_token)
    IN  /\ oauth_tokens' = TokensAfterRefresh(refresh_token, client_id, secret)
        /\ UNCHANGED <<oauth_codes, oauth_clients, client_secret, grants, lapsed,
                       evicted>>
            /\ IF err # ""
           THEN UNCHANGED <<nextId, chain, rotated>>
           ELSE /\ nextId' = nextId + 2
                /\ chain' = Put(chain, nextId,
                                [code |-> chain[old_token].code, by |-> "refresh",
                                 minted_at |-> now])
                /\ rotated' = rotated \cup {<<old_token, refresh_token>>}

----------------------------------------------------------------------------
(* OAuthManager.cleanup_expired *)

(* A faulty variant of the operator below: a record is dropped at the instant
   expires_at already. *)
UnexpiredInclusive(d) == [k \in {x \in DOMAIN d : ~(now >= d[x].expires_at)} |-> d[k]]

(* The records cleanup_expired keeps (oauth.py:326-339). *)
Unexpired(d) == [k \in {x \in DOMAIN d : ~(now > d[x].expires_at)} |-> d[k]]

cleanup_expired ==
    /\ oauth_codes' = Unexpired(oauth_codes)
    /\ oauth_tokens' = Unexpired(oauth_tokens)
    /\ UNCHANGED <<oauth_clients, client_secret, nextId, grants, chain, rotated,
                   lapsed, evicted>>

----------------------------------------------------------------------------
(* The /oauth/token endpoint (http_server.py:310-426).  A request is received
   (its form is parsed) and later handled; the handler body contains no await,
   so it runs as one step of the event loop. *)

TokenRequest(grant_type, code, redirect_uri, client_id, secret, refresh_token) ==
    [grant_type |-> grant_type, code |-> code, redirect_uri |-> redirect_uri,
     client_id |-> client_id, client_secret |-> secret,
     refresh_token |-> refresh_token,
     done |-> FALSE, http_status |-> 0, detail |-> "", token |-> NoToken,
     overlap |-> {}]

Pending == {i \in 1..Len(requests) : ~requests[i].done}

Respond(i, http_status, detail, token) ==
    requests' = [requests EXCEPT ![i] =
        [@ EXCEPT !.done = TRUE, !.http_status = http_status, !.detail = detail,
                  !.token = token, !.overlap = Pending \ {i}]]

(* Rejections raised by the endpoint itself, before the manager is called;
   "" when the request reaches the manager. *)
EndpointError(r) ==
    IF r.grant_type = "authorization_code"
    THEN IF r.code = None \/ r.client_id = None \/ r.redirect_uri = ""
         THEN "Missing required parameters for authorization_code grant"
         ELSE IF get_client(r.client_id) = NoClient THEN "Invalid client_id"
         ELSE IF get_client(r.client_id).token_endpoint_auth_method # "none"
                 /\ r.client_secret = None
              THEN "client_secret required for confidential clients"
         ELSE ""
    ELSE IF r.grant_type = "refresh_token"
    THEN IF r.refresh_token = None \/ r.client_id = None
         THEN "Missing required parameters for refresh_token grant"
         ELSE IF get_client(r.client_id) = NoClient THEN "Invalid client_id"
         ELSE IF get_client(r.client_id).token_endpoint_auth_method # "none"
                 /\ r.client_secret = None
              THEN "client_secret required for confidential clients"
         ELSE ""
    ELSE "Unsupported grant_type"

(* What the manager call made for request r returns. *)
ManagerReturn(r) ==
    IF r.grant_type = "authorization_code"
    THEN ExchangeReturn(r.code, r.client_id, r.client_secret, r.redirect_uri)
    ELSE RefreshReturn(r.refresh_token, r.client_id, r.client_secret)

oauth_token(i) ==
    LET r == requests[i]
        err == EndpointError(r)
        ret == ManagerReturn(r)
    IN  /\ i \in Pending
        /\ IF err # ""
           THEN /\ Respond(i, 400, err, NoToken)
                            /\ UNCHANGED <<oauth_codes, oauth_tokens, oauth_clients, client_secret,
                               nextId, grants, chain, rotated, lapsed, evicted>>
           ELSE /\ IF r.grant_type = "authorization_code"
                   THEN exchange_code_for_token(r.code, r.client_id, r.client_secret,
                                                r.redirect_uri)
                   ELSE refresh_access_token(r.refresh_token, r.client_id,
                                             r.client_secret)
                /\ Respond(i, IF ret.error = "" THEN 200 ELSE 400, ret.error, ret.token)

ReceiveTokenRequest(r) ==
    /\ Len(requests) < MaxRequests
    /\ requests' = Append(requests, r)
    /\ UNCHANGED <<oauth_codes, oauth_tokens, oauth_clients, client_secret, now, ticks,
                   nextId, grants, chain, rotated, lapsed, evicted, observed>>
    /\ UNCHANGED gateway

----------------------------------------------------------------------------
(* The clock.  Time matters only through the comparisons now > expires_at, so
   the clock advances to the instant a stored record expires at, or to the
   instant after it. *)

Expiries == {oauth_codes[k].expires_at : k \in DOMAIN oauth_codes} \cup
            {oauth_tokens[t].expires_at : t \in DOMAIN oauth_tokens}

Tick(instant) ==
    /\ ticks < MaxTicks
    /\ instant > now
    /\ ticks' = ticks + 1
    /\ now' = instant
    /\ UNCHANGED <<oauth_codes, oauth_tokens, oauth_clients, client_secret, nextId,
                   requests, grants, chain, rotated, lapsed, evicted>>
    /\ UNCHANGED gateway

----------------------------------------------------------------------------
(* The Odoo XML-RPC client (odoo_client.py).  OdooClient instances are numbered:
   app_client is the one create_app builds (http_server.py:88), the others are
   built by get_odoo_client (mcp_tools.py:18-22), one per tool call.  A remote
   attempt either raises a fault or returns a value; None stands for the
   backend's False.  An exception is its type and its message, the message a
   sequence of the parts it is formatted from. *)

Faults == {"timeout", "fault"}
RemoteUids == {2, 7}
Models == {"res.partner"}
Methods == {"search", "write"}

Raise(e) == [raises |-> TRUE, value |-> None, error |-> e]
Return(v) == [raises |-> FALSE, value |-> v, error |-> ""]

(* What the backend does on the successive attempts of one retried call: k
   attempts raise, a timeout and a fault in turn, and the next one, if there
   is one, returns v. *)
Failing(k) == [i \in 1..k |-> Raise(IF i % 2 = 1 THEN "timeout" ELSE "fault")]
Scripts(values) ==
    {Failing(k) \o <<Return(v)>> : k \in 0..(max_retries - 1), v \in values}
    \cup {Failing(IF max_retries > 0 THEN max_retries ELSE 0)}
AuthScripts == Scripts(RemoteUids \cup {None})
CallScripts == Scripts({1})

(* A faulty variant of the operator below: it sleeps after the last failure
   too. *)
RECURSIVE RetryFromSleepAlways(_, _, _, _)
RetryFromSleepAlways(outcomes, attempt, slept, last_error) ==
    IF attempt >= max_retries
    THEN [raises |-> TRUE, value |-> None, error |-> last_error,
          attempts |-> attempt, slept |-> slept]
    ELSE IF ~outcomes[attempt + 1].raises
    THEN [raises |-> FALSE, value |-> outcomes[attempt + 1].value, error |-> "",
          attempts |-> attempt + 1, slept |-> slept]
    ELSE RetryFromSleepAlways(outcomes, attempt + 1, slept + 2^attempt,
                              outcomes[attempt + 1].error)

(* The loop of _retry_with_backoff from iteration attempt on (odoo_client.py:
   94-114): what it returns or raises, the attempts made and the seconds
   slept. *)
RECURSIVE RetryFrom(_, _, _, _)
RetryFrom(outcomes, attempt, slept, last_error) ==
    IF attempt >= max_retries
    THEN [raises |-> TRUE, value |-> None, error |-> last_error,
          attempts |-> attempt, slept |-> slept]
    ELSE IF ~outcomes[attempt + 1].raises
    THEN [raises |-> FALSE, value |-> outcomes[attempt + 1].value, error |-> "",
          attempts |-> attempt + 1, slept |-> slept]
    ELSE RetryFrom(outcomes, attempt + 1,
                   IF attempt < max_retries - 1 THEN slept + 2^attempt ELSE slept,
                   outcomes[attempt + 1].error)

_retry_with_backoff(outcomes) == RetryFrom(outcomes, 0, 0, "No attempts made")

(* self._uid of a client; a client just built has none (odoo_client.py:48). *)
UidOf(client) == IF client \in DOMAIN _uid THEN _uid[client] ELSE None

NoReturn == [raises |-> FALSE, value |-> None, type |-> "", message |-> <<>>,
             cached |-> FALSE, auth_attempts |-> 0, call_attempts |-> 0, slept |-> 0]

(* What authenticate() returns or raises for a client whose self._uid is
   cached_uid (odoo_client.py:127-153). *)
AuthenticateReturn(cached_uid, outcomes) ==
    LET r == _retry_with_backoff(outcomes)
        failed(detail) ==
            [NoReturn EXCEPT !.raises = TRUE, !.type = "OdooAuthenticationError",
                             !.message = <<"Authentication error: ", detail>>,
                             !.auth_attempts = r.attempts, !.slept = r.slept]
    IN  IF cached_uid # None
        THEN [NoReturn EXCEPT !.value = cached_uid, !.cached = TRUE]
        ELSE IF r.raises THEN failed(r.error)
        ELSE IF r.value = None THEN failed("Authentication failed for user")
        ELSE [NoReturn EXCEPT !.value = r.value, !.auth_attempts = r.attempts,
                              !.slept = r.slept]

(* A faulty variant of the operator below: the uid is never memoized. *)
UidAfterAuthenticateForgetful(cached_uid, outcomes) == cached_uid

(* A faulty variant of the operator below: a failed authentication is
   remembered as an identity. *)
UidAfterAuthenticateSticky(cached_uid, outcomes) ==
    IF AuthenticateReturn(cached_uid, outcomes).raises
    THEN Min(RemoteUids)
    ELSE AuthenticateReturn(cached_uid, outcomes).value

(* self._uid after authenticate() (odoo_client.py:145). *)
UidAfterAuthenticate(cached_uid, outcomes) ==
    IF AuthenticateReturn(cached_uid, outcomes).raises
    THEN cached_uid
    ELSE AuthenticateReturn(cached_uid, outcomes).value

(* A faulty variant of the operator below: the message carries no model and
   method. *)
CallErrorBare(model, method, detail) ==
    [type |-> "OdooClientError", message |-> <<"Error calling ", ": ">> \o detail]

(* The exception of odoo_client.py:212. *)
CallError(model, method, detail) ==
    [type |-> "OdooClientError",
     message |-> <<"Error calling ", model, ".", method, ": ">> \o detail]

(* What execute_kw returns or raises (odoo_client.py:176-212). *)
ExecuteReturn(cached_uid, model, method, auth_outcomes, call_outcomes) ==
    LET a == AuthenticateReturn(cached_uid, auth_outcomes)
        r == _retry_with_backoff(call_outcomes)
    IN  IF a.raises
        THEN [a EXCEPT !.type = CallError(model, method, a.message).type,
                       !.message = CallError(model, method, a.message).message]
        ELSE IF r.raises
        THEN [a EXCEPT !.raises = TRUE, !.value = None,
                       !.type = CallError(model, method, <<r.error>>).type,
                       !.message = CallError(model, method, <<r.error>>).message,
                       !.call_attempts = r.attempts, !.slept = a.slept + r.slept]
        ELSE [a EXCEPT !.value = r.value, !.call_attempts = r.attempts,
                       !.slept = a.slept + r.slept]

NoAudit == [attempts |-> 0, granted |-> 0, returned |-> {}]

(* The history of a client after one authenticate() of it: the remote attempts
   it made, how many of them returned a uid, and the uids its calls returned. *)
AuditAfter(client, ret) ==
    LET before == IF client \in DOMAIN audit THEN audit[client] ELSE NoAudit
    IN  [attempts |-> before.attempts + ret.auth_attempts,
         granted |-> before.granted + (IF ret.raises \/ ret.cached THEN 0 ELSE 1),
         returned |-> IF ret.raises THEN before.returned
                      ELSE before.returned \cup {ret.value}]

authenticate(client, outcomes) ==
    LET ret == AuthenticateReturn(UidOf(client), outcomes)
    IN  /\ _uid' = Put(_uid, client, UidAfterAuthenticate(UidOf(client), outcomes))
        /\ audit' = Put(audit, client, AuditAfter(client, ret))
        /\ last' = [op |-> "authenticate", client |-> client, model |-> "",
                    method |-> "", ret |-> ret]

execute_kw(client, model, method, auth_outcomes, call_outcomes) ==
    LET a == AuthenticateReturn(UidOf(client), auth_outcomes)
    IN  /\ _uid' = Put(_uid, client, UidAfterAuthenticate(UidOf(client), auth_outcomes))
        /\ audit' = Put(audit, client, AuditAfter(client, a))
        /\ last' = [op |-> "execute_kw", client |-> client, model |-> model,
                    method |-> method,
                    ret |-> ExecuteReturn(UidOf(client), model, method,
                                          auth_outcomes, call_outcomes)]

(* get_odoo_client (mcp_tools.py:18-22): the number of the client it builds. *)
get_odoo_client == Cardinality(DOMAIN _uid)

(* No execute_kw call is in progress and none has been made. *)
Idle == [pc |-> "idle", method |-> "", uid |-> None, attempt |-> 0,
         auth_attempts |-> 0, call_attempts |-> 0, slept |-> 0,
         auth_outcomes |-> <<>>, call_outcomes |-> <<>>,
         raises |-> FALSE, type |-> ""]

NoCall == [op |-> "", client |-> app_client, model |-> "", method |-> "",
           ret |-> NoReturn]

----------------------------------------------------------------------------
(* The response cache (cache.py).  A Python value is its type and its body: the
   list of record ids a search returns, the dict of field definitions
   fields_get returns, or None.  A cache key is the string that _make_key
   makes of its parts, joined with ":".  The Redis database keeps, for a key, the
   serialized value and the instant its time to live runs out; redis.get
   answers nil once that instant is reached.  A backend call that raises is
   the input fault; only Redis calls can raise. *)

cache_ttl == 300       \* config.py:37  settings.cache_ttl
fields_ttl == 3600     \* odoo_client.py:377

PyNone == [type |-> "NoneType", body |-> <<>>]
PyList(ids) == [type |-> "list", body |-> ids]
PyDict(fields) == [type |-> "dict", body |-> fields]

RecordIds == 1..2
SearchResults == {PyList(<<>>), PyList(<<2, 1>>)}
FieldsResults == {PyDict(<<>>), PyDict("name" :> "char")}

(* json.dumps and json.loads (cache.py:48, 30): an array of numerals, an object
   or null. *)
dumps(value) ==
    [json |-> IF value.type = "list" THEN "array"
              ELSE IF value.type = "dict" THEN "object" ELSE "null",
     tokens |-> IF value.type = "list"
                THEN [i \in 1..Len(value.body) |-> ToString(value.body[i])]
                ELSE value.body]

loads(text) ==
    IF text.json = "array"
    THEN PyList([i \in 1..Len(text.tokens) |->
                    CHOOSE n \in RecordIds : ToString(n) = text.tokens[i]])
    ELSE IF text.json = "object" THEN PyDict(text.tokens)
    ELSE PyNone

(* redis_client.get (cache.py:27): the stored text, or nil. *)
NoText == [json |-> "", tokens |-> <<>>]
RedisGet(key) ==
    IF key \in DOMAIN redis /\ now < redis[key].expires_at
    THEN redis[key].value
    ELSE NoText

(* The backends a CacheManager works on: Redis if it has a client, its own
   dict if not (cache.py:26, 47, 63, 77). *)
Backends == IF redis_client THEN {"redis"} ELSE {"local"}

(* A faulty variant of the operator below: a value that decodes to something
   falsy counts as a miss. *)
GetFromDecodedTruth(backend, key, fault) ==
    IF backend = "redis"
    THEN IF fault \/ RedisGet(key).json = "" \/ loads(RedisGet(key)).body = <<>>
         THEN PyNone
         ELSE loads(RedisGet(key))
    ELSE IF key \in DOMAIN local_cache THEN local_cache[key] ELSE PyNone

(* What CacheManager.get returns on a backend (cache.py:25-40). *)
GetFrom(backend, key, fault) ==
    IF backend = "redis"
    THEN IF fault \/ RedisGet(key).json = "" THEN PyNone ELSE loads(RedisGet(key))
    ELSE IF key \in DOMAIN local_cache THEN local_cache[key] ELSE PyNone

get(key, fault) == GetFrom(CHOOSE b \in Backends : TRUE, key, fault)

(* ttl or self.ttl (cache.py:45): None and 0 both give the default. *)
TtlOrDefault(ttl) == IF ttl = None THEN cache_ttl ELSE ttl

(* A faulty variant of the operator below: a key that is present is not
   written again. *)
RedisAfterSetIfAbsent(key, value, ttl, fault) ==
    IF fault \/ key \in DOMAIN redis THEN redis
    ELSE Put(redis, key, [value |-> dumps(value),
                          expires_at |-> now + TtlOrDefault(ttl)])

(* The stores after CacheManager.set (cache.py:47-53). *)
LocalAfterSet(key, value) == Put(local_cache, key, value)

RedisAfterSet(key, value, ttl, fault) ==
    IF fault THEN redis
    ELSE Put(redis, key, [value |-> dumps(value),
                          expires_at |-> now + TtlOrDefault(ttl)])

(* The ack of set, delete and clear (cache.py:55-58, 69-72, 83-86). *)
Ack(backends, fault) == ~("redis" \in backends /\ fault)

set(backends, key, value, ttl, fault) ==
    /\ local_cache' = IF "local" \in backends THEN LocalAfterSet(key, value)
                      ELSE local_cache
    /\ redis' = IF "redis" \in backends THEN RedisAfterSet(key, value, ttl, fault)
                ELSE redis
    /\ written' = IF Ack(backends, fault)
                  THEN Put(written, key, [value |-> value,
                                          expires_at |-> now + TtlOrDefault(ttl)])
                  ELSE written

delete(backends, key, fault) ==
    /\ local_cache' = IF "local" \in backends THEN Del(local_cache, key)
                      ELSE local_cache
    /\ redis' = IF "redis" \in backends /\ ~fault THEN Del(redis, key) ELSE redis
    /\ written' = IF Ack(backends, fault) THEN Del(written, key) ELSE written

clear(backends, fault) ==
    /\ local_cache' = IF "local" \in backends THEN <<>> ELSE local_cache
    /\ redis' = IF "redis" \in backends /\ ~fault THEN <<>> ELSE redis
    /\ written' = IF Ack(backends, fault) THEN <<>> ELSE written

----------------------------------------------------------------------------
(* The operations of OdooClient that the tools call (odoo_client.py:214-379),
   on the client of create_app.  An optional argument is the empty set when it
   is None and the set of its value when it is given. *)

Domains == {Omitted, {<<>>}}
Limits == {Omitted, {0}, {100}, {101}}
Offsets == {0}
Orders == {Omitted, {""}, {"name asc"}}
SearchArgs == [model : Models, domain : Domains, limit : Limits,
               offset : Offsets, order : Orders]
Mutations == {"create", "write", "unlink"}
Reads == {"read", "search_read"}

Only(optional) == CHOOSE x \in optional : TRUE

(* domain if domain is not None else [] (odoo_client.py:235). *)
EffectiveDomain(a) == IF a.domain = Omitted THEN <<>> ELSE Only(a.domain)

(* The remote request of search (odoo_client.py:236-241, 252): limit is sent
   when it is not None, order when it is truthy. *)
SearchRequest(a) ==
    [model |-> a.model, method |-> "search", args |-> <<EffectiveDomain(a)>>,
     kwargs |-> [offset |-> a.offset, limit |-> a.limit,
                 order |-> IF a.order \in {Omitted, {""}} THEN Omitted ELSE a.order]]

(* sep.join(parts) *)
RECURSIVE Joined(_, _)
Joined(parts, sep) ==
    IF parts = <<>> THEN ""
    ELSE IF Len(parts) = 1 THEN parts[1]
    ELSE parts[1] \o sep \o Joined(Tail(parts), sep)

(* str() of a list of strings: the repr of each element between brackets. *)
str_list(l) == "[" \o Joined([i \in DOMAIN l |-> "'" \o l[i] \o "'"], ", ") \o "]"

(* cache.py:18-21; every caller passes strings. *)
_make_key(prefix, args) == Joined(<<prefix>> \o args, ":")

(* odoo_client.py:245-247 *)
SearchKey(a) ==
    _make_key("search",
              <<a.model, str_list(EffectiveDomain(a)),
                IF a.limit = Omitted THEN "None" ELSE ToString(Only(a.limit)),
                ToString(a.offset),
                IF a.order = Omitted THEN "None" ELSE Only(a.order)>>)

(* A faulty variant of the operator below: every search is cached. *)
CacheableAlways(a) == TRUE

(* limit and limit <= 100 (odoo_client.py:244); every OdooClient of the
   repository is built with a cache manager. *)
Cacheable(a) ==
    /\ a.limit # Omitted
    /\ Only(a.limit) # 0
    /\ Only(a.limit) <= 100

(* What search and get_fields find in the cache before they call the backend
   (odoo_client.py:244-250, 368-372). *)
Cached(key, use_cache, get_fault) ==
    IF use_cache THEN get(key, get_fault) ELSE PyNone

(* A gateway that lets a Redis error of get reach its caller. *)
CachedReturnUnabsorbed(cached_uid, key, use_cache, model, method, auth_outcomes, call_outcomes, get_fault) ==
    IF use_cache /\ get_fault
    THEN [NoReturn EXCEPT !.raises = TRUE, !.type = "RedisError"]
    ELSE IF Cached(key, use_cache, get_fault).type # "NoneType"
         THEN [NoReturn EXCEPT !.value = Cached(key, use_cache, get_fault)]
         ELSE ExecuteReturn(cached_uid, model, method, auth_outcomes, call_outcomes)

(* What search and get_fields return or raise (odoo_client.py:243-257,
   367-379). *)
CachedReturn(cached_uid, key, use_cache, model, method, auth_outcomes, call_outcomes, get_fault) ==
    IF Cached(key, use_cache, get_fault).type # "NoneType"
    THEN [NoReturn EXCEPT !.value = Cached(key, use_cache, get_fault)]
    ELSE ExecuteReturn(cached_uid, model, method, auth_outcomes, call_outcomes)

(* What the history keeps of an operation of the cached gateway: the limit
   it was given, whether the cache answered it, whether its result was stored,
   whether a Redis call raised, what it returned or raised, whether it made a
   remote execute attempt and the instant of the call. *)
Outcome(op, limit, ret, hit, stored, faulted) ==
    [op |-> op, limit |-> limit, hit |-> hit, stored |-> stored,
     faulted |-> faulted, raises |-> ret.raises, type |-> ret.type,
     value |-> IF ret.raises THEN PyNone ELSE ret.value,
     remote |-> ret.call_attempts > 0, at |-> now]

(* The id or flag an XML-RPC call returns, as a Python value. *)
PyInt(n) == [type |-> "int", body |-> <<n>>]
Boxed(ret) == [ret EXCEPT !.value = PyInt(ret.value)]

cached_call(op, limit, key, use_cache, ttl, model, method, auth_outcomes, call_outcomes, get_fault, set_fault) ==
    LET uid == UidOf(app_client)
        hit == Cached(key, use_cache, get_fault).type # "NoneType"
        ret == CachedReturn(uid, key, use_cache, model, method, auth_outcomes,
                            call_outcomes, get_fault)
        stores == use_cache /\ ~hit /\ ~ret.raises
    IN  /\ _uid' = IF hit THEN _uid
                   ELSE Put(_uid, app_client, UidAfterAuthenticate(uid, auth_outcomes))
        /\ IF stores
           THEN set(Backends, key, ret.value, ttl, set_fault)
           ELSE UNCHANGED <<local_cache, redis, written>>
        /\ last' = Outcome(op, limit, ret, hit, stores /\ Ack(Backends, set_fault),
                           use_cache /\ (get_fault \/ (stores /\ set_fault)))

search(a, auth_outcomes, call_outcomes, get_fault, set_fault) ==
    cached_call("search", a.limit, SearchKey(a), Cacheable(a), None, a.model, "search",
                auth_outcomes, call_outcomes, get_fault, set_fault)

get_fields(model, auth_outcomes, call_outcomes, get_fault, set_fault) ==
    cached_call("get_fields", Omitted, _make_key("fields", <<model>>),
                TRUE, fields_ttl, model, "fields_get",
                auth_outcomes, call_outcomes, get_fault, set_fault)

(* A gateway that empties the cache after a mutation the backend accepted. *)
forwardInvalidating(model, method, auth_outcomes, call_outcomes) ==
    LET ret == ExecuteReturn(UidOf(app_client), model, method,
                             auth_outcomes, call_outcomes)
    IN  /\ _uid' = Put(_uid, app_client,
                       UidAfterAuthenticate(UidOf(app_client), auth_outcomes))
        /\ last' = Outcome(method, Omitted, Boxed(ret), FALSE, FALSE, FALSE)
        /\ IF method \in Mutations /\ ~ret.raises
           THEN clear(Backends, FALSE)
           ELSE UNCHANGED <<local_cache, redis, written>>

(* read, search_read, create, write and unlink (odoo_client.py:259-355) forward
   to execute_kw. *)
forward(model, method, auth_outcomes, call_outcomes) ==
    /\ _uid' = Put(_uid, app_client,
                   UidAfterAuthenticate(UidOf(app_client), auth_outcomes))
    /\ last' = Outcome(method, Omitted,
                       Boxed(ExecuteReturn(UidOf(app_client), model, method,
                                           auth_outcomes, call_outcomes)),
                       FALSE, FALSE, FALSE)
    /\ UNCHANGED <<local_cache, redis, written>>

----------------------------------------------------------------------------
(* The state after module import: empty stores (oauth.py:13-15) and the global
   OAuthManager() of oauth.py:350, whose secret is the first random draw. *)

NoExchange == [code |-> None, client_id |-> None, client_secret |-> None,
               redirect_uri |-> "", error |-> ""]

(* The requests the event loop serves side by side, and a task slot with no
   request in it. *)
Tasks == {1, 2}
NoTask == [pc |-> "idle", op |-> "", phase |-> "", attempt |-> 0,
           auth_attempts |-> 0, call_attempts |-> 0, memo |-> None, uid |-> None,
           value |-> PyNone, raises |-> FALSE, hit |-> FALSE, stored |-> FALSE]

OAuthInit ==
    /\ oauth_codes = <<>>
    /\ oauth_tokens = <<>>
    /\ oauth_clients = <<>>
    /\ client_secret = 2
    /\ nextId = 3
    /\ now = 0
    /\ ticks = 0
    /\ requests = <<>>
    /\ grants = <<>>
    /\ chain = <<>>
    /\ rotated = {}
    /\ lapsed = {}
    /\ evicted = {}
    /\ observed = NoExchange

(* The client of create_app (http_server.py:88), not yet authenticated, and
   its cache manager (http_server.py:87), empty and without a Redis client. *)
GatewayStart ==
    /\ _uid = (app_client :> None)
    /\ audit = (app_client :> NoAudit)
    /\ last = NoCall
    /\ ops = 0
    /\ local_cache = <<>>
    /\ redis = <<>>
    /\ written = <<>>
    /\ run = Idle
    /\ tasks = [t \in Tasks |-> NoTask]

Init ==
    /\ OAuthInit
    /\ GatewayStart
    /\ max_retries = default_max_retries
    /\ redis_client = FALSE

env == <<now, ticks, requests, observed, gateway>>

(* The random source has returned at most n values after the step. *)
Drew(n) == nextId' <= n + 1

RegisterCall ==
    \E l \in RedirectInputs, m \in AuthMethods :
        register_client(l, Omitted, Omitted, m) /\ UNCHANGED env /\ Drew(MaxIds)

GenerateCall ==
    \E c \in ClientIds, u \in URIs, st \in States : \E sc \in ScopesOf(c) :
        generate_authorization_code(c, u, st, sc) /\ UNCHANGED env /\ Drew(MaxIds)

ExchangeCall ==
    \E k \in Codes, u \in URIs : \E c \in CallersOfCode(k) : \E s \in SecretsFor(c) :
        exchange_code_for_token(k, c, s, u) /\ UNCHANGED env /\ Drew(MaxIds)

ValidateCall ==
    \E t \in AccessTokens : validate_token(t) /\ UNCHANGED env

RefreshCall ==
    \E r \in RefreshTokens : \E c \in CallersOfRefresh(r) : \E s \in SecretsFor(c) :
        refresh_access_token(r, c, s) /\ UNCHANGED env /\ Drew(MaxIds)

CleanupCall == cleanup_expired /\ UNCHANGED env

Advance == \E e \in Expiries, d \in {0, 1} : Tick(e + d) /\ UNCHANGED observed

Next ==
    \/ RegisterCall
    \/ GenerateCall
    \/ ExchangeCall
    \/ ValidateCall
    \/ RefreshCall
    \/ CleanupCall
    \/ Advance

Spec == Init /\ [][Next]_vars

----------------------------------------------------------------------------
(* The token endpoint under concurrent requests: requests are received at any
   time and stay in flight until the event loop runs their handler.  Clients
   present a stored code with its redirect_uri and their secret, or a stored
   refresh token with or without their secret.  Only the static client exists
   and the clock stands still in this specification. *)

CodeRequests(k) ==
    {TokenRequest("authorization_code", k, oauth_codes[k].redirect_uri,
                  oauth_codes[k].client_id, s, None) :
        s \in {get_client(oauth_codes[k].client_id).client_secret}}

RefreshRequests(t) ==
    {TokenRequest("refresh_token", None, "", oauth_tokens[t].client_id, s,
                  oauth_tokens[t].refresh_token) :
        s \in {None, get_client(oauth_tokens[t].client_id).client_secret}}

TokenRequests ==
    UNION {CodeRequests(k) : k \in DOMAIN oauth_codes}
    \cup UNION {RefreshRequests(t) : t \in DOMAIN oauth_tokens}

ReceiveCall == \E r \in TokenRequests : ReceiveTokenRequest(r)

HandleCall ==
    \E i \in Pending :
        oauth_token(i) /\ UNCHANGED <<now, ticks, observed, gateway>> /\ Drew(MaxIds)

HttpNext ==
    \/ GenerateCall
    \/ ReceiveCall
    \/ HandleCall
    \/ ValidateCall

HttpSpec == Init /\ [][HttpNext]_vars

----------------------------------------------------------------------------
(* The code flow under a test harness: clients register, obtain codes and
   present them while the clock runs; the harness keeps what the call just
   made presented and raised when that call was an exchange.  The harness
   draws fewer random values than Spec. *)

quiet == <<now, ticks, requests, gateway>>

InHarness == Drew(MaxHarnessIds)

RegisterStep ==
    \E l \in RedirectInputs, m \in AuthMethods :
        /\ register_client(l, Omitted, Omitted, m)
        /\ observed' = NoExchange
        /\ UNCHANGED quiet
        /\ InHarness

GenerateStep ==
    \E c \in ClientIds, u \in URIs, st \in States : \E sc \in ScopesOf(c) :
        /\ generate_authorization_code(c, u, st, sc)
        /\ observed' = NoExchange
        /\ UNCHANGED quiet
        /\ InHarness

ExchangeStep ==
    \E k \in Codes, u \in URIs : \E c \in CallersOfCode(k) : \E s \in SecretsFor(c) :
        /\ exchange_code_for_token(k, c, s, u)
        /\ observed' = [code |-> k, client_id |-> c, client_secret |-> s,
                        redirect_uri |-> u, error |-> ExchangeError(k, c, s, u)]
        /\ UNCHANGED quiet
        /\ InHarness

AdvanceStep ==
    \E e \in Expiries, d \in {0, 1} :
        /\ Tick(e + d)
        /\ observed' = NoExchange
        /\ InHarness

ExchangeNext ==
    \/ RegisterStep
    \/ GenerateStep
    \/ ExchangeStep
    \/ AdvanceStep

ExchangeSpec == Init /\ [][ExchangeNext]_vars

----------------------------------------------------------------------------
(* Refresh chains: the static client obtains codes, redeems them and refreshes
   the tokens, presenting what it was given, while tokens are validated and
   expire.  More values are drawn here than in Spec, so that several chains
   are alive at once. *)

IssueStep ==
    \E c \in ClientIds, u \in URIs, st \in States : \E sc \in ScopesOf(c) :
        generate_authorization_code(c, u, st, sc) /\ UNCHANGED env /\ Drew(MaxChainIds)

RedeemStep ==
    \E k \in DOMAIN oauth_codes :
        /\ exchange_code_for_token(k, oauth_codes[k].client_id,
                                   get_client(oauth_codes[k].client_id).client_secret,
                                   oauth_codes[k].redirect_uri)
        /\ UNCHANGED env
        /\ Drew(MaxChainIds)

RefreshStep ==
    \E t \in DOMAIN oauth_tokens :
        /\ refresh_access_token(oauth_tokens[t].refresh_token, oauth_tokens[t].client_id,
                                get_client(oauth_tokens[t].client_id).client_secret)
        /\ UNCHANGED env
        /\ Drew(MaxChainIds)

ChainNext ==
    \/ IssueStep
    \/ RedeemStep
    \/ RefreshStep
    \/ ValidateCall
    \/ CleanupCall
    \/ Advance

ChainSpec == Init /\ [][ChainNext]_vars

----------------------------------------------------------------------------
(* The RPC gateway: the endpoints of the HTTP application authenticate and run
   tool calls on the application's client, the MCP tools on a client of their
   own; the backend fails and answers as it pleases.  max_retries is whatever
   the settings say. *)

Operated == /\ ops < MaxOps
            /\ ops' = ops + 1
            /\ UNCHANGED <<max_retries, oauth, caching, run, tasks>>

(* /health, /login and the start-up of run_http_server (http_server.py:117, 159,
   638). *)
AuthenticateCall ==
    \E o \in AuthScripts : Operated /\ authenticate(app_client, o)

(* /call_tool and /webhook/n8n (http_server.py:559-663), through
   handle_tool_call (tools.py:399-536). *)
CallToolCall ==
    \E m \in Models, f \in Methods, a \in AuthScripts, c \in CallScripts :
        Operated /\ execute_kw(app_client, m, f, a, c)

(* A tool of the /mcp application (mcp_tools.py:25-295). *)
McpToolCall ==
    \E m \in Models, f \in Methods, a \in AuthScripts, c \in CallScripts :
        Operated /\ execute_kw(get_odoo_client, m, f, a, c)

GatewayNext ==
    \/ AuthenticateCall
    \/ CallToolCall
    \/ McpToolCall

GatewayInit ==
    /\ OAuthInit
    /\ GatewayStart
    /\ max_retries \in 0..MaxRetries
    /\ redis_client = FALSE

GatewaySpec == GatewayInit /\ [][GatewayNext]_vars

----------------------------------------------------------------------------
(* The cached gateway: the tools search, read, change records and fetch field
   definitions through the application's client while the backend and Redis
   fail and answer as they please and the clock runs to the instants at which
   cache entries run out, under the default odoo_max_retries.  The cache manager works on its own dict or, given a
   Redis client, on Redis. *)

(* The Redis calls that may raise: none when the manager has no Redis client. *)
RedisFaults == IF redis_client THEN BOOLEAN ELSE {FALSE}

(* What the backend answers to the authentication attempts and to the execute
   attempts of the next operation: it is asked nothing when the uid is
   memoized, and nothing when the cache answers. *)
AuthAnswers ==
    IF UidOf(app_client) # None THEN {<<>>} ELSE Scripts({Min(RemoteUids), None})

CallAnswers(key, use_cache, get_fault, values) ==
    IF Cached(key, use_cache, get_fault).type # "NoneType" THEN {<<>>}
    ELSE Scripts(values)

Working == ops < MaxCacheOps
Worked == ops' = ops + 1 /\ UNCHANGED <<max_retries, audit, redis_client, oauth, run, tasks>>

SearchCall ==
    /\ Working
    /\ \E a \in SearchArgs, gf \in RedisFaults :
         \E co \in CallAnswers(SearchKey(a), Cacheable(a), gf, SearchResults) :
           \E ao \in AuthAnswers, sf \in RedisFaults :
               Worked /\ search(a, ao, co, gf, sf)

GetFieldsCall ==
    /\ Working
    /\ \E m \in Models, gf \in RedisFaults :
         \E co \in CallAnswers(_make_key("fields", <<m>>), TRUE, gf, FieldsResults) :
           \E ao \in AuthAnswers, sf \in RedisFaults :
               Worked /\ get_fields(m, ao, co, gf, sf)

ReadCall ==
    /\ Working
    /\ \E m \in Models, f \in Reads, ao \in AuthAnswers, co \in CallScripts :
         Worked /\ forward(m, f, ao, co)

MutateCall ==
    /\ Working
    /\ \E m \in Models, f \in Mutations, ao \in AuthAnswers, co \in CallScripts :
         Worked /\ forward(m, f, ao, co)

Elapse ==
    \E k \in DOMAIN written, d \in {0, 1} :
        Tick(written[k].expires_at + d) /\ UNCHANGED observed

CacheNext ==
    \/ SearchCall
    \/ GetFieldsCall
    \/ ReadCall
    \/ MutateCall
    \/ Elapse

CacheInit ==
    /\ OAuthInit
    /\ GatewayStart
    /\ max_retries = default_max_retries
    /\ redis_client \in BOOLEAN

CacheSpec == CacheInit /\ [][CacheNext]_vars

----------------------------------------------------------------------------
(* Two cache managers side by side, one on its own dict and one on Redis, given
   the same set, get, delete and clear calls; no backend call raises and the
   clock stands still. *)

Keys == {SearchKey(a) : a \in {x \in SearchArgs : Cacheable(x)}}
        \cup {_make_key("fields", <<m>>) : m \in Models}
ValuesFor(key) ==
    IF key \in {SearchKey(a) : a \in SearchArgs} THEN SearchResults ELSE FieldsResults
Ttls == {None, fields_ttl}
Both == {"local", "redis"}

Probed(op, key) ==
    /\ last' = [op |-> op, key |-> key]
    /\ UNCHANGED <<max_retries, _uid, audit, ops, redis_client, oauth, run, tasks>>

SetBoth ==
    \E k \in Keys, t \in Ttls : \E v \in ValuesFor(k) :
        set(Both, k, v, t, FALSE) /\ Probed("set", k)

GetBoth ==
    \E k \in Keys : Probed("get", k) /\ UNCHANGED <<local_cache, redis, written>>

DeleteBoth == \E k \in Keys : delete(Both, k, FALSE) /\ Probed("delete", k)

ClearBoth == \E k \in Keys : clear(Both, FALSE) /\ Probed("clear", k)

BackendNext ==
    \/ SetBoth
    \/ GetBoth
    \/ DeleteBoth
    \/ ClearBoth

BackendSpec == Init /\ [][BackendNext]_vars

----------------------------------------------------------------------------
(* execute_kw step by step (odoo_client.py:90-116, 127-153, 176-212): one call
   at a time on the application's client, each remote attempt a step of its
   own that the backend answers or fails as it pleases.  run.attempt is the
   loop variable of _retry_with_backoff; the outcomes met are kept so that the
   end of the call can be compared with ExecuteReturn. *)

ExecuteMethods == {"search", "fields_get"} \cup Reads \cup Mutations

(* A faulty variant of the operator below: the loop has no bound. *)
RetryingForever(attempt) == TRUE

(* for attempt in range(self.max_retries) (odoo_client.py:94) *)
Retrying(attempt) == attempt < max_retries

(* odoo_client.py:99-108 *)
wait_time(attempt) == IF attempt < max_retries - 1 THEN 2^attempt ELSE 0

Stepped == UNCHANGED <<max_retries, audit, last, caching, oauth, tasks>>

(* A gateway operation reaches execute_kw, which starts with authenticate()
   (odoo_client.py:180, 137-138). *)
Begin ==
    /\ run.pc = "idle"
    /\ ops < MaxOps
    /\ \E f \in ExecuteMethods :
           run' = [Idle EXCEPT !.pc = IF UidOf(app_client) # None THEN "execute"
                                      ELSE "authenticate",
                               !.method = f, !.uid = UidOf(app_client)]
    /\ ops' = ops + 1
    /\ UNCHANGED _uid
    /\ Stepped

(* The call ends with an exception, which execute_kw raises as OdooClientError
   (odoo_client.py:205-212). *)
Raised(frame) == [frame EXCEPT !.pc = "idle", !.raises = TRUE,
                               !.type = "OdooClientError"]

(* One attempt of common.authenticate (odoo_client.py:94-110, 141-149). *)
AuthenticateAttempt ==
    /\ run.pc = "authenticate"
    /\ Retrying(run.attempt)
    /\ \E o \in {Raise("timeout")} \cup {Return(u) : u \in RemoteUids \cup {None}} :
         LET tried == [run EXCEPT !.auth_attempts = @ + 1,
                                  !.auth_outcomes = Append(@, o)]
         IN  IF o.raises
             THEN /\ run' = [tried EXCEPT !.attempt = @ + 1,
                                          !.slept = @ + wait_time(run.attempt)]
                  /\ UNCHANGED _uid
             ELSE IF o.value = None
             THEN run' = Raised(tried) /\ UNCHANGED _uid
             ELSE /\ run' = [tried EXCEPT !.pc = "execute", !.attempt = 0]
                  /\ _uid' = Put(_uid, app_client, o.value)
    /\ UNCHANGED ops
    /\ Stepped

(* One attempt of models.execute_kw (odoo_client.py:94-110, 191-203). *)
ExecuteAttempt ==
    /\ run.pc = "execute"
    /\ Retrying(run.attempt)
    /\ \E o \in {Raise("fault"), Return(1)} :
         LET tried == [run EXCEPT !.call_attempts = @ + 1,
                                  !.call_outcomes = Append(@, o)]
         IN  run' = IF o.raises
                    THEN [tried EXCEPT !.attempt = @ + 1,
                                       !.slept = @ + wait_time(run.attempt)]
                    ELSE [tried EXCEPT !.pc = "idle"]
    /\ UNCHANGED <<_uid, ops>>
    /\ Stepped

(* The loop is over: raise last_error (odoo_client.py:116). *)
GiveUp ==
    /\ run.pc \in {"authenticate", "execute"}
    /\ ~Retrying(run.attempt)
    /\ run' = Raised(run)
    /\ UNCHANGED <<_uid, ops>>
    /\ Stepped

RetryNext ==
    \/ Begin
    \/ AuthenticateAttempt
    \/ ExecuteAttempt
    \/ GiveUp

(* Every remote attempt returns or fails, and the sleeps end. *)
RetrySpec ==
    /\ GatewayInit
    /\ [][RetryNext]_vars
    /\ WF_vars(AuthenticateAttempt)
    /\ WF_vars(ExecuteAttempt)
    /\ WF_vars(GiveUp)

----------------------------------------------------------------------------
(* The event loop of the HTTP application (http_server.py:665-680): every
   endpoint is an async def, so all requests run as tasks of one thread.  A
   task gives the thread up only where it awaits something that suspends: with
   a Redis client, redis_client.get and redis_client.setex (cache.py:27, 49).
   authenticate, execute_kw, the remote attempts of _retry_with_backoff and its
   sleep (time.sleep, odoo_client.py:7, 108) are plain calls: the task keeps the
   thread from the first attempt to the end of execute_kw.  /health and /login
   call authenticate(); /call_tool runs a cacheable search, the same one in
   every task. *)

TheSearch == [model |-> CHOOSE m \in Models : TRUE, domain |-> Omitted,
              limit |-> {100}, offset |-> 0, order |-> Omitted]
TheKey == SearchKey(TheSearch)

(* The task is inside a call that does not return to the event loop: a remote
   attempt (odoo_client.py:96) or the sleep after it (108). *)
Blocking(frame) == frame.pc \in {"attempt", "sleep"}

(* The event loop can run task t: no other task keeps the thread. *)
LoopFree(t) == \A u \in Tasks \ {t} : ~Blocking(tasks[u])

Scheduled == UNCHANGED <<max_retries, audit, last, redis_client, run, oauth>>

(* A faulty variant of the operator below: the memoized uid is not looked at. *)
EnterExecuteForgetful(frame) ==
    [frame EXCEPT !.pc = "attempt", !.attempt = 0, !.phase = "authenticate",
                  !.memo = UidOf(app_client), !.uid = UidOf(app_client)]

(* execute_kw starts with authenticate() (odoo_client.py:180, 137-138). *)
EnterExecute(frame) ==
    [frame EXCEPT !.pc = "attempt", !.attempt = 0,
                  !.phase = IF UidOf(app_client) # None THEN "execute"
                            ELSE "authenticate",
                  !.memo = UidOf(app_client), !.uid = UidOf(app_client)]

Receive(t) ==
    /\ tasks[t].pc \in {"idle", "done"}
    /\ ops < MaxCalls
    /\ \E op \in {"authenticate", "search"} :
           tasks' = [tasks EXCEPT ![t] = [NoTask EXCEPT !.pc = "ready", !.op = op]]
    /\ ops' = ops + 1
    /\ UNCHANGED <<_uid, local_cache, redis, written>>
    /\ Scheduled

(* The handler runs up to its first suspension: authenticate() returns the
   memoized uid or starts its attempts; search awaits Redis, or looks into the
   dict and returns the hit or goes on to execute_kw. *)
Start(t) ==
    /\ tasks[t].pc = "ready"
    /\ LoopFree(t)
    /\ tasks' = [tasks EXCEPT ![t] =
           IF @.op = "authenticate"
           THEN IF UidOf(app_client) # None
                THEN [@ EXCEPT !.pc = "done", !.memo = UidOf(app_client),
                               !.uid = UidOf(app_client)]
                ELSE [@ EXCEPT !.pc = "attempt", !.phase = "authenticate"]
           ELSE IF redis_client THEN [@ EXCEPT !.pc = "get"]
           ELSE IF GetFrom("local", TheKey, FALSE).type # "NoneType"
           THEN [@ EXCEPT !.pc = "done", !.hit = TRUE,
                          !.value = GetFrom("local", TheKey, FALSE)]
           ELSE EnterExecute(@)]
    /\ UNCHANGED <<_uid, ops, local_cache, redis, written>>
    /\ Scheduled

(* redis_client.get answers or raises (cache.py:27-40, odoo_client.py:248-252). *)
GetReturns(t) ==
    /\ tasks[t].pc = "get"
    /\ LoopFree(t)
    /\ \E fault \in BOOLEAN :
           tasks' = [tasks EXCEPT ![t] =
               IF GetFrom("redis", TheKey, fault).type # "NoneType"
               THEN [@ EXCEPT !.pc = "done", !.hit = TRUE,
                              !.value = GetFrom("redis", TheKey, fault)]
               ELSE EnterExecute(@)]
    /\ UNCHANGED <<_uid, ops, local_cache, redis, written>>
    /\ Scheduled

(* After a failed attempt: sleep unless it was the last one (odoo_client.py:
   97-108). *)
Failed(frame) ==
    [frame EXCEPT !.attempt = @ + 1,
                  !.pc = IF frame.attempt < max_retries - 1 THEN "sleep" ELSE "attempt"]

(* One attempt of common.authenticate (odoo_client.py:96, 141-149). *)
AuthenticateStep(t) ==
    /\ tasks[t].pc = "attempt"
    /\ tasks[t].phase = "authenticate"
    /\ Retrying(tasks[t].attempt)
    /\ \E o \in {Raise("timeout")} \cup {Return(u) : u \in RemoteUids \cup {None}} :
         LET tried == [tasks[t] EXCEPT !.auth_attempts = @ + 1]
         IN  IF o.raises
             THEN tasks' = [tasks EXCEPT ![t] = Failed(tried)] /\ UNCHANGED _uid
             ELSE IF o.value = None
             THEN /\ tasks' = [tasks EXCEPT ![t] = [tried EXCEPT !.pc = "done",
                                                                 !.raises = TRUE]]
                  /\ UNCHANGED _uid
             ELSE /\ tasks' = [tasks EXCEPT ![t] =
                        IF tried.op = "authenticate"
                        THEN [tried EXCEPT !.pc = "done", !.uid = o.value]
                        ELSE [tried EXCEPT !.phase = "execute", !.attempt = 0,
                                           !.uid = o.value]]
                  /\ _uid' = Put(_uid, app_client, o.value)
    /\ UNCHANGED <<ops, local_cache, redis, written>>
    /\ Scheduled

(* One attempt of models.execute_kw; the result of a search goes to the cache:
   into the dict at once, to Redis through an awaited setex (odoo_client.py:
   252-257, cache.py:47-53). *)
ExecuteStep(t) ==
    /\ tasks[t].pc = "attempt"
    /\ tasks[t].phase = "execute"
    /\ Retrying(tasks[t].attempt)
    /\ \E o \in {Raise("fault")} \cup {Return(v) : v \in SearchResults} :
         LET tried == [tasks[t] EXCEPT !.call_attempts = @ + 1]
         IN  IF o.raises
             THEN /\ tasks' = [tasks EXCEPT ![t] = Failed(tried)]
                  /\ UNCHANGED <<local_cache, written>>
             ELSE IF redis_client
             THEN /\ tasks' = [tasks EXCEPT ![t] = [tried EXCEPT !.pc = "set",
                                                                 !.value = o.value]]
                  /\ UNCHANGED <<local_cache, written>>
             ELSE /\ tasks' = [tasks EXCEPT ![t] = [tried EXCEPT !.pc = "done",
                                                                 !.value = o.value,
                                                                 !.stored = TRUE]]
                  /\ local_cache' = LocalAfterSet(TheKey, o.value)
                  /\ written' = Put(written, TheKey,
                                    [value |-> o.value,
                                     expires_at |-> now + TtlOrDefault(None)])
    /\ UNCHANGED <<_uid, ops, redis>>
    /\ Scheduled

(* time.sleep returns (odoo_client.py:108). *)
Wake(t) ==
    /\ tasks[t].pc = "sleep"
    /\ tasks' = [tasks EXCEPT ![t] = [@ EXCEPT !.pc = "attempt"]]
    /\ UNCHANGED <<_uid, ops, local_cache, redis, written>>
    /\ Scheduled

(* The loop is over: raise last_error (odoo_client.py:116). *)
Abandon(t) ==
    /\ tasks[t].pc = "attempt"
    /\ ~Retrying(tasks[t].attempt)
    /\ tasks' = [tasks EXCEPT ![t] = [@ EXCEPT !.pc = "done", !.raises = TRUE]]
    /\ UNCHANGED <<_uid, ops, local_cache, redis, written>>
    /\ Scheduled

(* redis_client.setex answers or raises; search returns its result either way
   (cache.py:49-58, odoo_client.py:255-257). *)
SetReturns(t) ==
    /\ tasks[t].pc = "set"
    /\ LoopFree(t)
    /\ \E fault \in BOOLEAN :
         /\ tasks' = [tasks EXCEPT ![t] = [@ EXCEPT !.pc = "done",
                                                    !.stored = ~fault]]
         /\ redis' = RedisAfterSet(TheKey, tasks[t].value, None, fault)
         /\ written' = IF fault THEN written
                       ELSE Put(written, TheKey,
                                [value |-> tasks[t].value,
                                 expires_at |-> now + TtlOrDefault(None)])
    /\ UNCHANGED <<_uid, ops, local_cache>>
    /\ Scheduled

TaskStep(t) ==
    \/ Start(t)
    \/ GetReturns(t)
    \/ AuthenticateStep(t)
    \/ ExecuteStep(t)
    \/ Wake(t)
    \/ Abandon(t)
    \/ SetReturns(t)

LoopNext == \E t \in Tasks : Receive(t) \/ TaskStep(t)

LoopInit ==
    /\ OAuthInit
    /\ GatewayStart
    /\ max_retries = default_max_retries
    /\ redis_client \in BOOLEAN

LoopSpec == LoopInit /\ [][LoopNext]_vars

----------------------------------------------------------------------------
(* The authorization endpoints (http_server.py:178-308): GET /oauth/authorize
   answers with a consent page whose form posts client_id, redirect_uri, state
   and scope to /oauth/authorize/approve, which issues the code and redirects.
   The harness keeps the request just made and the response to it.  A state of
   "" stands for an omitted one. *)

ResponseTypes == {"code", "token"}
AuthorizeStates == {"", "xyz"}

(* The request just made and its response: the status, the detail of an
   error, and the code and state carried by the Location of a redirect. *)
Response(endpoint, response_type, client_id, redirect_uri, state, status, detail, code, location_state) ==
    [endpoint |-> endpoint, response_type |-> response_type, client_id |-> client_id,
     redirect_uri |-> redirect_uri, state |-> state, status |-> status,
     detail |-> detail, code |-> code, location_state |-> location_state]

(* A faulty variant of the check below that accepts every response type. *)
AuthorizeErrorAnyType(response_type, client_id) ==
    IF get_client(client_id) = NoClient THEN "Invalid client_id" ELSE ""

(* http_server.py:199-212, 265-273 *)
AuthorizeError(response_type, client_id) ==
    IF response_type # "code" THEN "Only 'code' response_type is supported"
    ELSE IF get_client(client_id) = NoClient THEN "Invalid client_id"
    ELSE ""

(* GET /oauth/authorize (http_server.py:178-273). *)
oauth_authorize(response_type, client_id, redirect_uri, state) ==
    /\ observed' = Response("authorize", response_type, client_id, redirect_uri, state,
                            IF AuthorizeError(response_type, client_id) # ""
                            THEN 400 ELSE 200,
                            AuthorizeError(response_type, client_id), None, "")
    /\ UNCHANGED <<oauth_codes, oauth_tokens, oauth_clients, client_secret, nextId,
                   grants, chain, rotated, lapsed, evicted>>

(* POST /oauth/authorize/approve (http_server.py:275-308); the form carries no
   response_type. *)
oauth_authorize_approve(client_id, redirect_uri, state, scope) ==
    /\ generate_authorization_code(client_id, redirect_uri, state, scope)
    /\ observed' = IF GenerateError(client_id, redirect_uri) # ""
                   THEN Response("approve", "", client_id, redirect_uri, state, 400,
                                 GenerateError(client_id, redirect_uri), None, "")
                   ELSE Response("approve", "", client_id, redirect_uri, state, 303,
                                 "", nextId, state)

AuthorizeCall ==
    \E rt \in ResponseTypes, c \in ClientIds, u \in URIs, st \in AuthorizeStates :
        oauth_authorize(rt, c, u, st) /\ UNCHANGED quiet

ApproveCall ==
    \E c \in ClientIds, u \in URIs, st \in AuthorizeStates : \E sc \in ScopesOf(c) :
        oauth_authorize_approve(c, u, st, sc) /\ UNCHANGED quiet /\ InHarness

(* POST /oauth/register (http_server.py:465-513). *)
RegisterPost ==
    \E l \in RedirectInputs, m \in AuthMethods :
        /\ register_client(l, Omitted, Omitted, m)
        /\ observed' = Response("register", "", None, "", "",
                                IF RegisterError(l) # "" THEN 400 ELSE 200,
                                RegisterError(l), None, "")
        /\ UNCHANGED quiet
        /\ InHarness

AuthorizeNext ==
    \/ RegisterPost
    \/ AuthorizeCall
    \/ ApproveCall

AuthorizeSpec == Init /\ [][AuthorizeNext]_vars

----------------------------------------------------------------------------
(* Properties *)

Presented == Ids \cup {None}        \* any client_id or client_secret a caller supplies

(* C1: single use of authorization codes.  A code that an exchange has
   redeemed was redeemed exactly once, and whatever client_id, client_secret
   and redirect_uri a later exchange presents with it, and whatever other
   operations ran in between, the call raises "Invalid authorization code". *)
C1_SingleUse ==
    \A k \in DOMAIN grants :
        /\ grants[k] = 1
        /\ \A c \in Presented, s \in Presented, u \in URIs :
               ExchangeError(k, c, s, u) = "Invalid authorization code"

(* A code has been redeemed, its token refreshed and the clock advanced. *)
C1_Witness ==
    \E k \in DOMAIN grants : rotated # {} /\ ticks > 0

(* C2: refresh rotation.  Once a refresh replaced the record (A, R), A does not
   validate and presenting R to refresh_access_token raises "Invalid refresh
   token" whoever presents it; the access token a refresh returned validates
   until its expiry, as long as it was not itself refreshed away. *)
C2_RefreshRotation ==
    /\ \A p \in rotated :
           /\ ~TokenValid(p[1])
           /\ \A c \in Presented, s \in Presented :
                  RefreshError(p[2], c, s) = "Invalid refresh token"
    /\ \A t \in DOMAIN chain :
           (/\ chain[t].by = "refresh"
            /\ t \notin {p[1] : p \in rotated}
            /\ now <= chain[t].minted_at + token_expiry_seconds)
           => TokenValid(t)

(* A refresh has succeeded and its new access token is still current. *)
C2_Witness ==
    \E p \in rotated : \E t \in DOMAIN oauth_tokens :
        chain[t].by = "refresh" /\ TokenValid(t) /\ ~TokenValid(p[1])

(* C3: redirect binding.  An exchange that presents a stored, unexpired code as
   the client that requested it, with the right secret when that client is
   confidential, but with another redirect_uri than the code was issued for,
   raises "Redirect URI mismatch" and issues no token. *)
C3_Step ==
    LET o == observed'
        record == oauth_codes[o.code]
        client == get_client(o.client_id)
    IN  (/\ o.code \in DOMAIN oauth_codes
         /\ now <= record.expires_at
         /\ o.client_id = record.client_id
         /\ \/ client.token_endpoint_auth_method = "none"
            \/ o.client_secret = client.client_secret
         /\ o.redirect_uri # record.redirect_uri)
        => /\ o.error = "Redirect URI mismatch"
           /\ oauth_tokens' = oauth_tokens
           /\ nextId' = nextId

C3_RedirectBinding == [][C3_Step]_vars

(* The exchange just made was refused for its redirect_uri alone, while a token
   issued earlier is stored. *)
C3_Witness ==
    /\ observed.error = "Redirect URI mismatch"
    /\ observed.code \in DOMAIN oauth_codes
    /\ observed.redirect_uri # oauth_codes[observed.code].redirect_uri
    /\ oauth_tokens # <<>>

(* C4: code expiry.  A code expires 600 s after its creation.  An exchange made
   later than that raises "Authorization code expired" and drops the code; one
   made up to and including that instant is not refused for expiry; a code
   dropped this way raises "Invalid authorization code" from then on. *)
C4_CodeExpiry ==
    /\ \A k \in DOMAIN oauth_codes :
           /\ oauth_codes[k].expires_at = oauth_codes[k].created_at + 600
           /\ \A c \in Presented, s \in Presented, u \in URIs :
                  IF now > oauth_codes[k].created_at + 600
                  THEN /\ ExchangeError(k, c, s, u) = "Authorization code expired"
                       /\ k \notin DOMAIN CodesAfterExchange(k, c, s, u)
                  ELSE ExchangeError(k, c, s, u) # "Authorization code expired"
    /\ \A k \in lapsed :
           \A c \in Presented, s \in Presented, u \in URIs :
               ExchangeError(k, c, s, u) = "Invalid authorization code"

(* A late exchange has dropped one code while a younger code is stored. *)
C4_Witness ==
    /\ lapsed # {}
    /\ \E k \in DOMAIN oauth_codes : now <= oauth_codes[k].expires_at

(* C5: validation order.  The message an exchange raises is that of the first
   failing check in the order: code stored, code not expired, code's client_id
   equal to the one supplied, client resolvable, secret right unless the
   client's auth method is "none", redirect_uri equal to the code's. *)
C5_Step ==
    LET o == observed'
        stored == o.code \in DOMAIN oauth_codes
        record == oauth_codes[o.code]
        live == now <= record.expires_at
        same == record.client_id = o.client_id
        client == get_client(o.client_id)
        resolvable == client # NoClient
        secret_ok == \/ client.token_endpoint_auth_method = "none"
                     \/ o.client_secret = client.client_secret
        redirect_ok == record.redirect_uri = o.redirect_uri
    IN  o.code # None =>
        /\ ~stored => o.error = "Invalid authorization code"
        /\ (stored /\ ~live) => o.error = "Authorization code expired"
        /\ (stored /\ live /\ ~same) => o.error = "Client ID mismatch"
        /\ (stored /\ live /\ same /\ ~resolvable) => o.error = "Client not found"
        /\ (stored /\ live /\ same /\ resolvable /\ ~secret_ok)
               => o.error = "Invalid client secret"
        /\ (stored /\ live /\ same /\ resolvable /\ secret_ok /\ ~redirect_ok)
               => o.error = "Redirect URI mismatch"
        /\ (stored /\ live /\ same /\ resolvable /\ secret_ok /\ redirect_ok)
               => o.error = ""

C5_ValidationOrder == [][C5_Step]_vars

(* The exchange just made presented a wrong secret together with a wrong
   redirect_uri and was refused for the secret. *)
C5_Witness ==
    /\ observed.error = "Invalid client secret"
    /\ observed.code \in DOMAIN oauth_codes
    /\ observed.redirect_uri # oauth_codes[observed.code].redirect_uri

(* C6: effect of a successful exchange.  The call adds exactly one token record,
   keyed by a fresh access token and holding the supplied client_id, the scope
   bound to the code, a fresh refresh token and expires_at = now + 86400;
   it removes the code and leaves every other code and token as it was; the
   response is a Bearer token with expires_in 86400 and the access token,
   refresh token and scope of the stored record. *)
C6_SuccessfulExchange ==
    \A k \in DOMAIN oauth_codes, c \in Presented, s \in Presented, u \in URIs :
        ExchangeError(k, c, s, u) = "" =>
            LET response == ExchangeReturn(k, c, s, u).token
                tokens == TokensAfterExchange(k, c, s, u)
                codes == CodesAfterExchange(k, c, s, u)
                a == response.access_token
            IN  /\ a \notin Drawn /\ response.refresh_token \notin Drawn
                /\ a # response.refresh_token
                /\ DOMAIN tokens = DOMAIN oauth_tokens \cup {a}
                /\ a \notin DOMAIN oauth_tokens
                /\ \A t \in DOMAIN oauth_tokens : tokens[t] = oauth_tokens[t]
                /\ tokens[a].client_id = c
                /\ tokens[a].scope = oauth_codes[k].scope
                /\ tokens[a].refresh_token = response.refresh_token
                /\ tokens[a].expires_at = now + 86400
                /\ DOMAIN codes = DOMAIN oauth_codes \ {k}
                /\ \A j \in DOMAIN codes : codes[j] = oauth_codes[j]
                /\ response.token_type = "Bearer"
                /\ response.expires_in = 86400
                /\ response.scope = tokens[a].scope

(* An exchange has issued a token that is still stored, and a dynamic client's
   code with a scope of its own can be redeemed next to it. *)
C6_Witness ==
    /\ \E t \in DOMAIN oauth_tokens : chain[t].by = "exchange"
    /\ \E k \in DOMAIN oauth_codes, s \in Presented :
           /\ oauth_codes[k].scope # DEFAULT_SCOPE
           /\ ExchangeError(k, oauth_codes[k].client_id, s,
                            oauth_codes[k].redirect_uri) = ""

(* C7: at most one current token per refresh chain.  No two stored token
   records descend from the same code exchange, and no two stored token
   records hold the same refresh_token. *)
C7_OneTokenPerChain ==
    \A t1 \in DOMAIN oauth_tokens, t2 \in DOMAIN oauth_tokens :
        t1 # t2 =>
            /\ chain[t1].code # chain[t2].code
            /\ oauth_tokens[t1].refresh_token # oauth_tokens[t2].refresh_token

(* Two chains are alive, one of them refreshed at least once. *)
C7_Witness ==
    \E t1 \in DOMAIN oauth_tokens, t2 \in DOMAIN oauth_tokens :
        t1 # t2 /\ chain[t1].by = "refresh"

(* C8: refresh is atomic for concurrent validators.  In no state that a
   validator can observe between the steps of other requests do two access
   tokens of one chain validate, and from the state in which the token a
   refresh returned exists, the token it replaced does not validate. *)
C8_RefreshAtomic ==
    /\ \A t1 \in Drawn, t2 \in Drawn :
           (t1 # t2 /\ TokenValid(t1) /\ TokenValid(t2))
           => chain[t1].code # chain[t2].code
    /\ \A i \in 1..Len(requests) :
           (/\ requests[i].done
            /\ requests[i].grant_type = "refresh_token"
            /\ requests[i].http_status = 200)
           => \A p \in rotated :
                  p[2] = requests[i].refresh_token => ~TokenValid(p[1])

(* A refresh request was served while another request was in flight, and the
   token it returned validates. *)
C8_Witness ==
    \E i \in 1..Len(requests) :
        /\ requests[i].done
        /\ requests[i].grant_type = "refresh_token"
        /\ requests[i].http_status = 200
        /\ requests[i].overlap # {}
        /\ TokenValid(requests[i].token.access_token)

(* C9: concurrent redemption of one code.  Of two requests in flight together
   that present the same code with the right client, secret and redirect_uri,
   at most one is answered with a token and the one handled second is refused
   with "Invalid authorization code"; no code yields more than one token
   record. *)
C9_ConcurrentRedemption ==
    /\ \A i \in 1..Len(requests), j \in 1..Len(requests) :
           (/\ i # j
            /\ requests[i].done /\ requests[j].done
            /\ j \in requests[i].overlap
            /\ requests[i].grant_type = "authorization_code"
            /\ requests[j].grant_type = "authorization_code"
            /\ requests[i].code = requests[j].code)
           => /\ ~(requests[i].http_status = 200 /\ requests[j].http_status = 200)
              /\ requests[i].http_status = 200 =>
                     /\ requests[j].http_status = 400
                     /\ requests[j].detail = "Invalid authorization code"
                     /\ requests[j].token = NoToken
    /\ \A k \in DOMAIN grants :
           /\ grants[k] <= 1
           /\ Cardinality({t \in DOMAIN chain :
                               chain[t].code = k /\ chain[t].by = "exchange"}) <= 1

(* Two requests for one code were in flight together; the first one handled got
   the token and the second was refused. *)
C9_Witness ==
    \E i \in 1..Len(requests), j \in 1..Len(requests) :
        /\ requests[i].done /\ requests[j].done
        /\ j \in requests[i].overlap
        /\ requests[i].grant_type = "authorization_code"
        /\ requests[i].code = requests[j].code
        /\ requests[i].http_status = 200
        /\ requests[j].detail = "Invalid authorization code"

(* C10: validate_token(A) returns true exactly when a record for A is stored and
   now <= its expires_at; when the record is stored and now > expires_at the
   call deletes it; every other token record, every code and every client is
   left as it was, and a call that returns true changes nothing. *)
C10_Returns ==
    \A a \in Presented :
        LET stored == a \in DOMAIN oauth_tokens
            after == TokensAfterValidate(a)
        IN  /\ TokenValid(a) <=> (stored /\ now <= oauth_tokens[a].expires_at)
            /\ (stored /\ now > oauth_tokens[a].expires_at) =>
                   ~TokenValid(a) /\ a \notin DOMAIN after
            /\ DOMAIN after \subseteq DOMAIN oauth_tokens
            /\ \A t \in DOMAIN oauth_tokens \ {a} :
                   t \in DOMAIN after /\ after[t] = oauth_tokens[t]
            /\ TokenValid(a) => after = oauth_tokens

C10_Frame ==
    ValidateCall =>
        /\ UNCHANGED <<oauth_codes, oauth_clients, client_secret>>
        /\ \A t \in DOMAIN oauth_tokens' : oauth_tokens'[t] = oauth_tokens[t]
        /\ Cardinality(DOMAIN oauth_tokens \ DOMAIN oauth_tokens') <= 1

C10_ValidateToken == []C10_Returns /\ [][C10_Frame]_vars

(* A validation has evicted an expired token while a code is still stored. *)
C10_Witness ==
    /\ oauth_codes # <<>>
    /\ \E t \in evicted : t \notin DOMAIN oauth_tokens

(* C11: refresh_access_token.  The call raises "Invalid refresh token" when no
   stored record holds the presented refresh token, "Client ID mismatch" when
   the record's client_id is not the supplied one, and "Invalid client secret"
   when the client's auth method is not "none" and the supplied secret is not
   the stored one; a call that raises leaves the token store as it was; a call
   that succeeds replaces the old record by exactly one new record, keyed by a
   fresh access token, with a fresh refresh token, the old record's client_id
   and scope, and expires_at = now + 86400. *)
C11_Refresh ==
    \A r \in Presented, c \in Presented : \A s \in SecretsFor(c) :
        LET hits == {t \in DOMAIN oauth_tokens : oauth_tokens[t].refresh_token = r}
            err == RefreshError(r, c, s)
            ret == RefreshReturn(r, c, s)
            after == TokensAfterRefresh(r, c, s)
            client == get_client(c)
            a == ret.token.access_token
        IN  /\ hits = {} => err = "Invalid refresh token"
            /\ Cardinality(hits) <= 1
            /\ \A t \in hits :
                   /\ oauth_tokens[t].client_id # c => err = "Client ID mismatch"
                   /\ (/\ oauth_tokens[t].client_id = c
                       /\ client.token_endpoint_auth_method # "none"
                       /\ s # client.client_secret) => err = "Invalid client secret"
                   /\ (/\ oauth_tokens[t].client_id = c
                       /\ \/ client.token_endpoint_auth_method = "none"
                          \/ s = client.client_secret) => err = ""
                   /\ err = "" =>
                          /\ a \notin Drawn /\ ret.token.refresh_token \notin Drawn
                          /\ a # ret.token.refresh_token
                          /\ DOMAIN after = (DOMAIN oauth_tokens \ {t}) \cup {a}
                          /\ \A x \in DOMAIN oauth_tokens \ {t} :
                                 after[x] = oauth_tokens[x]
                          /\ after[a].client_id = oauth_tokens[t].client_id
                          /\ after[a].scope = oauth_tokens[t].scope
                          /\ after[a].refresh_token = ret.token.refresh_token
                          /\ after[a].refresh_token # r
                          /\ after[a].expires_at = now + 86400
                          /\ ret.token.scope = oauth_tokens[t].scope
            /\ err # "" => after = oauth_tokens /\ ret.token = NoToken

(* A refresh has succeeded, and the record it stored can be refreshed again by
   its owner but not by another caller nor without the secret. *)
C11_Witness ==
    \E p \in rotated : \E t \in DOMAIN oauth_tokens :
        LET r == oauth_tokens[t].refresh_token
            c == oauth_tokens[t].client_id
        IN  /\ chain[t].by = "refresh"
            /\ RefreshError(r, c, get_client(c).client_secret) = ""
            /\ RefreshError(r, c, None) = "Invalid client secret"
            /\ RefreshError(r, client_secret, None) = "Client ID mismatch"

(* C12: generate_authorization_code.  The call raises "Invalid client_id" when
   client_id is neither the static client nor a registered one, and
   "Unauthorized redirect_uri" when redirect_uri is not among that client's
   redirect URIs; a call that raises stores no code; a call that succeeds
   stores exactly one new code, bound to the client_id, the redirect_uri and
   the scope (the default scope when none is given), with expires_at =
   created_at + 600; so every stored code's redirect_uri is one of its
   client's redirect URIs. *)
C12_Generate ==
    /\ \A c \in Presented, u \in URIs, sc \in {"", "odoo:read"} :
           LET err == GenerateError(c, u)
               after == CodesAfterGenerate(c, u, "", sc)
               known == c = static_client_id \/ c \in DOMAIN oauth_clients
               code == nextId
           IN  /\ ~known => err = "Invalid client_id"
               /\ (known /\ ~InList(u, get_client(c).redirect_uris))
                      => err = "Unauthorized redirect_uri"
               /\ (known /\ InList(u, get_client(c).redirect_uris)) => err = ""
               /\ err # "" => after = oauth_codes
               /\ err = "" =>
                      /\ code \notin Drawn
                      /\ DOMAIN after = DOMAIN oauth_codes \cup {code}
                      /\ \A k \in DOMAIN oauth_codes : after[k] = oauth_codes[k]
                      /\ after[code].client_id = c
                      /\ after[code].redirect_uri = u
                      /\ after[code].scope = (IF sc = "" THEN "odoo:read odoo:write" ELSE sc)
                      /\ after[code].created_at = now
                      /\ after[code].expires_at = after[code].created_at + 600
    /\ \A k \in DOMAIN oauth_codes :
           /\ get_client(oauth_codes[k].client_id) # NoClient
           /\ InList(oauth_codes[k].redirect_uri,
                     get_client(oauth_codes[k].client_id).redirect_uris)
           /\ oauth_codes[k].expires_at = oauth_codes[k].created_at + 600

(* The static client and a registered client each hold a code, issued at
   different instants, and the registered client's redirect_uri is refused for
   the static client. *)
C12_Witness ==
    \E k1 \in DOMAIN oauth_codes, k2 \in DOMAIN oauth_codes :
        /\ oauth_codes[k1].client_id = static_client_id
        /\ oauth_codes[k2].client_id \in DOMAIN oauth_clients
        /\ oauth_codes[k1].created_at # oauth_codes[k2].created_at
        /\ GenerateError(static_client_id, oauth_codes[k2].redirect_uri)
               = "Unauthorized redirect_uri"

(* C13: register_client.  A call whose redirect_uris is empty or not a list
   raises and leaves the client store as it was.  A call that succeeds adds
   exactly one client, under a fresh client_id that is neither the static
   client's nor a registered one; the record holds a client_secret exactly
   when the auth method is not "none", grant_types [authorization_code,
   refresh_token] and response_types [code] when these are omitted and the
   given lists otherwise; the response has a client_secret exactly when one
   was generated; clients registered before, codes and tokens stay as they
   were. *)
C13_Effect ==
    \A l \in RedirectInputs, g \in GrantTypeInputs, rt \in ResponseTypeInputs,
       m \in AuthMethods :
        LET ret == RegisterReturn(l, g, rt, m)
            after == ClientsAfterRegister(l, g, rt, m)
        IN  IF l.items = <<>> \/ ~l.list
            THEN ret.error # "" /\ after = oauth_clients
            ELSE LET id == ret.response.client_id
                 IN  /\ ret.error = ""
                     /\ id \notin Drawn
                     /\ id # static_client_id
                     /\ id \notin DOMAIN oauth_clients
                     /\ DOMAIN after = DOMAIN oauth_clients \cup {id}
                     /\ \A c \in DOMAIN oauth_clients : after[c] = oauth_clients[c]
                     /\ after[id].client_id = id
                     /\ after[id].redirect_uris = l.items
                     /\ after[id].token_endpoint_auth_method = m
                     /\ (after[id].client_secret # None) <=> (m # "none")
                     /\ after[id].client_secret # None =>
                            /\ after[id].client_secret \notin Drawn
                            /\ after[id].client_secret # id
                     /\ after[id].grant_types =
                            (IF g = {} THEN <<"authorization_code", "refresh_token">>
                             ELSE CHOOSE x \in g : TRUE)
                     /\ after[id].response_types =
                            (IF rt = {} THEN <<"code">> ELSE CHOOSE x \in rt : TRUE)
                     /\ ("client_secret" \in DOMAIN ret.response)
                            <=> (after[id].client_secret # None)
                     /\ "client_secret" \in DOMAIN ret.response =>
                            ret.response.client_secret = after[id].client_secret

C13_Frame ==
    RegisterCall =>
        /\ UNCHANGED <<oauth_codes, oauth_tokens, client_secret>>
        /\ \A c \in DOMAIN oauth_clients :
               c \in DOMAIN oauth_clients' /\ oauth_clients'[c] = oauth_clients[c]
        /\ Cardinality(DOMAIN oauth_clients' \ DOMAIN oauth_clients) <= 1

C13_RegisterClient == []C13_Effect /\ [][C13_Frame]_vars

(* A public and a confidential client have been registered after a code was
   issued, and the code is still stored. *)
C13_Witness ==
    /\ \E c1 \in DOMAIN oauth_clients, c2 \in DOMAIN oauth_clients :
           /\ oauth_clients[c1].client_secret = None
           /\ oauth_clients[c2].client_secret # None
    /\ \E k \in DOMAIN oauth_codes : \A c \in DOMAIN oauth_clients : k < c

(* C14: public clients.  A client registered with auth method "none" has no
   client_secret, and an exchange of one of its unexpired codes with its
   client_id and the code's redirect_uri, or a refresh of one of its tokens
   with its client_id, succeeds when no secret is supplied.  For a client with
   any other auth method the same call, made with anything but the stored
   secret, raises "Invalid client secret". *)
C14_PublicClient ==
    /\ \A c \in DOMAIN oauth_clients :
           oauth_clients[c].token_endpoint_auth_method = "none"
               => oauth_clients[c].client_secret = None
    /\ \A k \in DOMAIN oauth_codes :
           LET c == oauth_codes[k].client_id
               u == oauth_codes[k].redirect_uri
           IN  now <= oauth_codes[k].expires_at =>
                   IF get_client(c).token_endpoint_auth_method = "none"
                   THEN /\ ExchangeError(k, c, None, u) = ""
                        /\ ExchangeReturn(k, c, None, u).token # NoToken
                   ELSE \A s \in Presented \ {get_client(c).client_secret} :
                            ExchangeError(k, c, s, u) = "Invalid client secret"
    /\ \A t \in DOMAIN oauth_tokens :
           LET c == oauth_tokens[t].client_id
               r == oauth_tokens[t].refresh_token
           IN  IF get_client(c).token_endpoint_auth_method = "none"
               THEN /\ RefreshError(r, c, None) = ""
                    /\ RefreshReturn(r, c, None).token # NoToken
               ELSE \A s \in Presented \ {get_client(c).client_secret} :
                        RefreshError(r, c, s) = "Invalid client secret"

(* A public client has redeemed a code and can refresh the token without a
   secret, while the static client's code cannot be redeemed without one. *)
C14_Witness ==
    /\ \E t \in DOMAIN oauth_tokens :
           /\ get_client(oauth_tokens[t].client_id).token_endpoint_auth_method = "none"
           /\ chain[t].by = "exchange"
           /\ RefreshError(oauth_tokens[t].refresh_token, oauth_tokens[t].client_id,
                           None) = ""
    /\ \E k \in DOMAIN oauth_codes :
           /\ oauth_codes[k].client_id = static_client_id
           /\ ExchangeError(k, static_client_id, None, oauth_codes[k].redirect_uri)
                  = "Invalid client secret"

(* C15: terminal states.  A code that has left the code store (redeemed,
   dropped by a late exchange, or dropped by cleanup_expired) is never stored
   again and no exchange of it succeeds; an access token that has left the
   token store (replaced by a refresh, evicted by validate_token, or dropped
   by cleanup_expired) is never stored again and never validates, and its
   refresh token never refreshes again.  Every key an operation inserts is a
   value never drawn before. *)
StoredRefreshTokens == {oauth_tokens[t].refresh_token : t \in DOMAIN oauth_tokens}

C15_Removed ==
    /\ DOMAIN oauth_codes \subseteq Drawn
    /\ DOMAIN oauth_tokens \subseteq Drawn
    /\ StoredRefreshTokens \subseteq Drawn
    /\ (DOMAIN grants \cup lapsed) \cap DOMAIN oauth_codes = {}
    /\ ({p[1] : p \in rotated} \cup evicted) \cap DOMAIN oauth_tokens = {}
    /\ {p[2] : p \in rotated} \cap StoredRefreshTokens = {}
    /\ \A k \in Drawn \ DOMAIN oauth_codes :
           \A c \in Presented, u \in URIs : \A s \in SecretsFor(c) :
               /\ ExchangeError(k, c, s, u) # ""
               /\ TokensAfterExchange(k, c, s, u) = oauth_tokens
    /\ \A t \in Drawn \ DOMAIN oauth_tokens : ~TokenValid(t)
    /\ \A r \in Drawn \ StoredRefreshTokens :
           \A c \in Presented : \A s \in SecretsFor(c) :
               /\ RefreshError(r, c, s) # ""
               /\ TokensAfterRefresh(r, c, s) = oauth_tokens

C15_NoReinsert ==
    /\ \A k \in DOMAIN oauth_codes' \ DOMAIN oauth_codes : k \notin Drawn
    /\ \A t \in DOMAIN oauth_tokens' \ DOMAIN oauth_tokens :
           /\ t \notin Drawn
           /\ oauth_tokens'[t].refresh_token \notin Drawn
    /\ \A t \in DOMAIN oauth_tokens' \cap DOMAIN oauth_tokens :
           oauth_tokens'[t].refresh_token = oauth_tokens[t].refresh_token

C15_Terminal == []C15_Removed /\ [][C15_NoReinsert]_vars

(* cleanup_expired has dropped a token that was neither refreshed nor evicted,
   and a code issued later is stored. *)
C15_Witness ==
    /\ \E t \in DOMAIN chain :
           /\ t \notin DOMAIN oauth_tokens
           /\ t \notin evicted
           /\ t \notin {p[1] : p \in rotated}
    /\ oauth_codes # <<>>

(* C16: cleanup_expired deletes exactly the codes and tokens with expires_at <
   now: afterwards no stored code or token has expires_at < now, every code
   and token with expires_at >= now is still stored with the same contents,
   and the clients are as they were. *)
C16_Effect ==
    LET codes == Unexpired(oauth_codes)
        tokens == Unexpired(oauth_tokens)
    IN  /\ DOMAIN codes \subseteq DOMAIN oauth_codes
        /\ DOMAIN tokens \subseteq DOMAIN oauth_tokens
        /\ \A k \in DOMAIN codes : ~(codes[k].expires_at < now)
        /\ \A t \in DOMAIN tokens : ~(tokens[t].expires_at < now)
        /\ \A k \in DOMAIN oauth_codes :
               IF oauth_codes[k].expires_at >= now
               THEN k \in DOMAIN codes /\ codes[k] = oauth_codes[k]
               ELSE k \notin DOMAIN codes
        /\ \A t \in DOMAIN oauth_tokens :
               IF oauth_tokens[t].expires_at >= now
               THEN t \in DOMAIN tokens /\ tokens[t] = oauth_tokens[t]
               ELSE t \notin DOMAIN tokens

C16_Frame ==
    CleanupCall =>
        /\ UNCHANGED <<oauth_clients, client_secret, nextId>>
        /\ \A k \in DOMAIN oauth_codes' : oauth_codes'[k].expires_at >= now
        /\ \A t \in DOMAIN oauth_tokens' : oauth_tokens'[t].expires_at >= now

C16_Cleanup == []C16_Effect /\ [][C16_Frame]_vars

(* cleanup_expired has dropped an expired token and kept a token minted after
   that one expired. *)
C16_Witness ==
    \E t1 \in DOMAIN chain, t2 \in DOMAIN oauth_tokens :
        /\ t1 \notin DOMAIN oauth_tokens
        /\ t1 \notin evicted
        /\ t1 \notin {p[1] : p \in rotated}
        /\ chain[t2].minted_at > chain[t1].minted_at + token_expiry_seconds
        /\ oauth_tokens[t2].expires_at >= now

(* C17: idempotence of authenticate.  As claimed: the calls of authenticate()
   on one client return the same uid, and all of them together make at most
   one remote authentication call. *)
C17_AtMostOneRemoteCall ==
    \A c \in DOMAIN audit :
        /\ Cardinality(audit[c].returned) <= 1
        /\ audit[c].returned # {} => audit[c].attempts <= 1

(* C17, amended: the calls of authenticate() on one client that return, return
   the same uid; at most one remote authentication attempt of the client ever
   returns a uid, that uid is memoized, and a call that finds a uid memoized
   returns it without any remote attempt; a call that finds none makes at
   most max_retries attempts. *)
C17_Idempotent ==
    \A c \in DOMAIN audit :
        /\ Cardinality(audit[c].returned) <= 1
        /\ audit[c].granted <= 1
        /\ audit[c].granted = 1 <=> _uid[c] # None
        /\ audit[c].returned \subseteq {_uid[c]} \ {None}
        /\ \A o \in AuthScripts :
               LET ret == AuthenticateReturn(_uid[c], o)
               IN  IF _uid[c] # None
                   THEN /\ ~ret.raises
                        /\ ret.value = _uid[c]
                        /\ ret.auth_attempts = 0
                        /\ UidAfterAuthenticate(_uid[c], o) = _uid[c]
                   ELSE /\ ret.auth_attempts <= max_retries
                        /\ ~ret.raises => UidAfterAuthenticate(_uid[c], o) = ret.value

(* authenticate() has returned the memoized uid of a client whose first
   authentication took more than one remote attempt. *)
C17_Witness ==
    /\ last.op = "authenticate"
    /\ last.ret.cached
    /\ audit[last.client].attempts > 1
    /\ audit[last.client].returned = {last.ret.value}

(* C18: retry bound.  A remote call that fails k times, k <= max_retries - 1,
   and then succeeds returns the success value after exactly k + 1 attempts
   and 2^0 + ... + 2^(k-1) seconds of sleep; one that fails max_retries times
   raises the last attempt's exception, as it is, after exactly max_retries
   attempts and 2^0 + ... + 2^(max_retries-2) seconds of sleep, none of them
   after the last failure. *)
RECURSIVE Backoff(_)
Backoff(n) == IF n <= 0 THEN 0 ELSE Backoff(n - 1) + 2^(n - 1)

C18_RetryBound ==
    /\ \A k \in 0..(max_retries - 1), v \in RemoteUids \cup {None} :
           LET r == _retry_with_backoff(Failing(k) \o <<Return(v)>>)
           IN  /\ ~r.raises
               /\ r.value = v
               /\ r.attempts = k + 1
               /\ r.slept = Backoff(k)
    /\ max_retries >= 1 =>
           LET r == _retry_with_backoff(Failing(max_retries))
           IN  /\ r.raises
               /\ r.error = Failing(max_retries)[max_retries].error
               /\ r.attempts = max_retries
               /\ r.slept = Backoff(max_retries - 1)
    /\ (last.op = "authenticate" /\ ~last.ret.cached) =>
           /\ last.ret.auth_attempts <= max_retries
           /\ last.ret.slept = Backoff(IF last.ret.auth_attempts = max_retries
                                           /\ last.ret.message
                                                  \in {<<"Authentication error: ", f>> : f \in Faults}
                                       THEN max_retries - 1
                                       ELSE last.ret.auth_attempts - 1)

(* With max_retries = 3, an authentication has given up after three attempts
   and 1 + 2 seconds of sleep, raising the third attempt's timeout. *)
C18_Witness ==
    /\ max_retries > 2
    /\ last.op = "authenticate"
    /\ last.ret.raises
    /\ last.ret.auth_attempts = max_retries
    /\ last.ret.slept = 2^(max_retries - 1) - 1
    /\ last.ret.message = <<"Authentication error: ", Failing(max_retries)[max_retries].error>>

(* C19: session invariant.  Within one process all operations, whatever their
   entry point, use one memoized uid: a remote authentication is made only by
   an operation that finds no uid memoized, a memoized uid is never replaced,
   and once one authentication has succeeded no later operation
   authenticates again. *)
C19_SharedSession ==
    /\ \A c \in DOMAIN audit : audit[c].granted <= 1
    /\ \A c1 \in DOMAIN audit, c2 \in DOMAIN audit :
           (audit[c1].granted > 0 /\ audit[c2].granted > 0) => c1 = c2

(* C20: error wrapping of execute_kw.  Every failure of execute_kw(model,
   method, ...), be it of the authentication or of the call itself once the
   retries are used up, reaches the caller as an OdooClientError whose message
   names the model and the method and ends with the underlying failure's
   message; nothing else is raised, and a call that does not fail returns the
   backend's result. *)
Exhausted(script) == \A i \in 1..Len(script) : script[i].raises

Underlying(script) ==
    IF Len(script) = 0 THEN "No attempts made" ELSE script[Len(script)].error

C20_ErrorWrapping ==
    /\ \A u \in {UidOf(last.client), None} :
       \A m \in Models, f \in Methods, a \in AuthScripts, o \in CallScripts :
           LET ret == ExecuteReturn(u, m, f, a, o)
               auth_fails == /\ u = None
                             /\ \/ Exhausted(a)
                                \/ a[Len(a)].value = None
               named == <<"Error calling ", m, ".", f, ": ">>
           IN  /\ ret.raises <=> (auth_fails \/ Exhausted(o))
               /\ ret.raises =>
                      /\ ret.type = "OdooClientError"
                      /\ Len(ret.message) > Len(named)
                      /\ SubSeq(ret.message, 1, Len(named)) = named
                      /\ ret.message[Len(ret.message)] =
                             (IF auth_fails
                              THEN IF Exhausted(a) THEN Underlying(a)
                                   ELSE "Authentication failed for user"
                              ELSE Underlying(o))
                      /\ auth_fails =>
                             ret.message = named \o AuthenticateReturn(u, a).message
               /\ ~ret.raises => ret.value = o[Len(o)].value
    /\ (last.op = "execute_kw" /\ last.ret.raises) =>
           /\ last.ret.type = "OdooClientError"
           /\ SubSeq(last.ret.message, 1, 5)
                  = <<"Error calling ", last.model, ".", last.method, ": ">>

(* A call on a client whose uid was memoized has used up its retries and
   raised the wrapped fault of its last attempt. *)
C20_Witness ==
    /\ last.op = "execute_kw"
    /\ last.ret.cached
    /\ last.ret.raises
    /\ max_retries > 1
    /\ last.ret.call_attempts = max_retries
    /\ last.ret.message = <<"Error calling ", last.model, ".", last.method, ": ",
                            Failing(max_retries)[max_retries].error>>

(* C21: operations without valid credentials.  While the backend rejects the
   credentials (every authentication attempt raises or returns no identity),
   every operation of the gateway fails with OdooAuthenticationError and makes
   no remote execute attempt. *)
Rejecting(script) ==
    \A i \in 1..Len(script) : script[i].raises \/ script[i].value = None

Denied(r) == r.raises /\ r.type = "OdooAuthenticationError" /\ r.call_attempts = 0

C21_NoCredentials ==
    \A ao \in {o \in AuthScripts : Rejecting(o)} :
        /\ \A a \in SearchArgs, co \in Scripts(SearchResults), gf \in RedisFaults :
               Denied(CachedReturn(UidOf(app_client), SearchKey(a), Cacheable(a),
                                   a.model, "search", ao, co, gf))
        /\ \A m \in Models, co \in Scripts(FieldsResults), gf \in RedisFaults :
               Denied(CachedReturn(UidOf(app_client), _make_key("fields", <<m>>),
                                   TRUE, m, "fields_get", ao, co, gf))
        /\ \A m \in Models, f \in Reads \cup Mutations, co \in CallScripts :
               Denied(ExecuteReturn(UidOf(app_client), m, f, ao, co))

(* C22: a failed authentication is not sticky.  authenticate() raises
   OdooAuthenticationError when every attempt raises or the backend returns no
   identity, and leaves the uid unset.  On a client without a uid, whatever
   failed before, an authenticate() or an operation whose backend accepts the
   credentials (the first attempt that does not raise returns a uid) asks the
   backend, obtains that uid and memoizes it.  When max_retries is 0 no
   attempt is made, so the backend never accepts. *)
Accepting(script) ==
    \E i \in 1..Len(script) :
        /\ ~script[i].raises
        /\ script[i].value # None
        /\ \A j \in 1..(i - 1) : script[j].raises

Granted(script) == script[Len(script)].value

C22_NotSticky ==
    /\ (last.op = "authenticate" /\ last.ret.raises) =>
           /\ UidOf(last.client) = None
           /\ last.ret.type = "OdooAuthenticationError"
    /\ \A c \in DOMAIN _uid :
           UidOf(c) = None =>
               \A ao \in AuthScripts :
                   LET r == AuthenticateReturn(UidOf(c), ao)
                   IN  IF Accepting(ao)
                       THEN /\ ~r.raises
                            /\ r.value = Granted(ao)
                            /\ r.auth_attempts >= 1
                            /\ UidAfterAuthenticate(UidOf(c), ao) = Granted(ao)
                            /\ \A m \in Models, f \in Methods, co \in CallScripts :
                                   LET e == ExecuteReturn(UidOf(c), m, f, ao, co)
                                   IN  /\ e.auth_attempts >= 1
                                       /\ e.raises <=> Exhausted(co)
                       ELSE /\ r.raises
                            /\ r.type = "OdooAuthenticationError"
                            /\ UidAfterAuthenticate(UidOf(c), ao) = None

(* An authentication that succeeds on a client whose earlier attempts all
   failed. *)
C22_Witness ==
    /\ last.op = "authenticate"
    /\ ~last.ret.raises
    /\ ~last.ret.cached
    /\ UidOf(last.client) = last.ret.value
    /\ audit[last.client].attempts > last.ret.auth_attempts

(* C23: cache hit.  After a search with limit <= 100 returned, with no Redis
   call raising, a second call with the same arguments is answered from the
   cache: whatever the backend would do, it returns the first call's result
   and makes no remote attempt. *)
Repeated(a) ==
    \A ao \in AuthAnswers, co \in Scripts(SearchResults) :
        LET r == CachedReturn(UidOf(app_client), SearchKey(a), Cacheable(a),
                              a.model, "search", ao, co, FALSE)
        IN  /\ ~r.raises
            /\ r.value = last.value
            /\ r.auth_attempts = 0
            /\ r.call_attempts = 0

C23_Step ==
    (/\ ops' = ops + 1
     /\ last'.op = "search"
     /\ last'.limit # Omitted
     /\ Only(last'.limit) <= 100
     /\ ~last'.raises
     /\ ~last'.faulted)
        => (\E a \in SearchArgs : a.limit = last.limit /\ Repeated(a))'

C23_CacheHit == [][C23_Step]_vars

(* C24: cache bypass.  A search with limit unset or above 100 neither reads nor
   writes the cache: whatever the cache holds and whether Redis fails, it
   returns or raises what execute_kw does, it leaves the cache as it is, and
   when it returns it has made a remote execute attempt, so that each of two
   consecutive identical calls makes one.  The same holds of read and
   search_read. *)
Bypassing(limit) == limit = Omitted \/ Only(limit) > 100

C24_Uncached ==
    \A a \in SearchArgs :
        Bypassing(a.limit) =>
            \A ao \in AuthAnswers, co \in Scripts(SearchResults), gf \in RedisFaults :
                LET r == CachedReturn(UidOf(app_client), SearchKey(a), Cacheable(a),
                                      a.model, "search", ao, co, gf)
                IN  /\ r = ExecuteReturn(UidOf(app_client), a.model, "search", ao, co)
                    /\ ~r.raises => r.call_attempts >= 1

C24_Frame ==
    (/\ ops' = ops + 1
     /\ \/ last'.op = "search" /\ Bypassing(last'.limit)
        \/ last'.op \in Reads)
        => /\ UNCHANGED <<local_cache, redis, written>>
           /\ ~last'.hit
           /\ ~last'.stored
           /\ ~last'.raises => last'.remote

C24_Bypass == []C24_Uncached /\ [][C24_Frame]_vars

(* The second of two searches above the limit that the backend answered, with
   nothing cached. *)
C24_Witness ==
    /\ ops = 2
    /\ last.op = "search"
    /\ last.limit = {101}
    /\ last.remote
    /\ ~last.raises
    /\ written = <<>>

(* C25: cache entries expire.  With either backend, once more than the TTL an
   entry was written with has passed since it was set, get no longer returns
   it. *)
Expired(key) == key \in DOMAIN written /\ now > written[key].expires_at

C25_Expiry ==
    \A key \in DOMAIN written :
        Expired(key) => \A fault \in RedisFaults : get(key, fault).type = "NoneType"

(* C26: the cache is advisory.  When a Redis call of get raises, get yields
   absent; when one of set raises, set acknowledges negatively and stores
   nothing; search and get_fields then return or raise exactly what execute_kw
   does, as with no cache configured, and the only errors that reach the caller
   of a gateway operation are the gateway's own. *)
GatewayErrors == {"OdooAuthenticationError", "OdooClientError"}

C26_Absorbed ==
    redis_client =>
        /\ ~Ack(Backends, TRUE)
        /\ \A key \in Keys :
            /\ get(key, TRUE) = PyNone
            /\ \A value \in ValuesFor(key), ttl \in Ttls :
                   RedisAfterSet(key, value, ttl, TRUE) = redis
            /\ \A m \in Models, ao \in AuthAnswers, co \in Scripts(ValuesFor(key)) :
                   CachedReturn(UidOf(app_client), key, TRUE, m, "search", ao, co, TRUE)
                       = ExecuteReturn(UidOf(app_client), m, "search", ao, co)

C26_Step ==
    (ops' = ops + 1 /\ last'.faulted)
        => /\ ~last'.hit
           /\ IF last'.raises THEN last'.type \in GatewayErrors ELSE last'.remote
           /\ ~last'.stored => UNCHANGED <<local_cache, redis, written>>

C26_Advisory ==
    /\ []C26_Absorbed
    /\ [][C26_Step]_vars
    /\ [][ops' = ops + 1 => (last'.raises => last'.type \in GatewayErrors)]_vars

(* A search or get_fields that returned the backend's result although a Redis
   call raised, with an entry in the cache. *)
C26_Witness ==
    /\ redis_client
    /\ ops > 0
    /\ last.faulted
    /\ ~last.raises
    /\ last.remote
    /\ ~last.stored
    /\ redis # <<>>

(* C27: cache backend equivalence.  After any sequence of set, get, delete and
   clear made on both backends with the same keys and values, no Redis error
   and the clock still, get returns the same on the dict and on Redis for every
   key: the last value set for the key since it was last deleted or cleared, or
   absent.  delete makes only its key absent and clear makes every key
   absent. *)
LocalGet(key) == GetFrom("local", key, FALSE)
RedisRoundTrip(key) == GetFrom("redis", key, FALSE)

C27_SameGet ==
    \A key \in Keys :
        /\ LocalGet(key) = RedisRoundTrip(key)
        /\ LocalGet(key) = IF key \in DOMAIN written THEN written[key].value ELSE PyNone

C27_Step ==
    /\ last'.op = "set" =>
           /\ last'.key \in DOMAIN written'
           /\ \A k \in Keys \ {last'.key} :
                  LocalGet(k)' = LocalGet(k) /\ RedisRoundTrip(k)' = RedisRoundTrip(k)
    /\ last'.op = "delete" =>
           \A k \in Keys :
               IF k = last'.key
               THEN LocalGet(k)' = PyNone /\ RedisRoundTrip(k)' = PyNone
               ELSE LocalGet(k)' = LocalGet(k) /\ RedisRoundTrip(k)' = RedisRoundTrip(k)
    /\ last'.op = "clear" =>
           \A k \in Keys : LocalGet(k)' = PyNone /\ RedisRoundTrip(k)' = PyNone
    /\ last'.op = "get" =>
           \A k \in Keys :
               LocalGet(k)' = LocalGet(k) /\ RedisRoundTrip(k)' = RedisRoundTrip(k)

SameLogicalCall(a, b) == SearchRequest(a) = SearchRequest(b)

C28_SameKey ==
    \A a \in SearchArgs, b \in SearchArgs :
        (SameLogicalCall(a, b) /\ SearchKey(a) \in DOMAIN written)
            => SearchKey(b) = SearchKey(a)

(* C29: mutating operations bypass the cache.  create, write and unlink leave
   the dict, Redis and every get as they were, are never answered from the
   cache and store nothing; once the client is authenticated they make a
   remote execute attempt, and without a uid they raise.  A search result
   cached before a write is therefore the one returned after it. *)
SameEntries(f, g) == DOMAIN f = DOMAIN g /\ \A k \in DOMAIN f : f[k] = g[k]

C29_Step ==
    (ops' = ops + 1 /\ last'.op \in Mutations)
        => /\ SameEntries(local_cache', local_cache)
           /\ SameEntries(redis', redis)
           /\ SameEntries(written', written)
           /\ \A key \in Keys : \A fault \in RedisFaults :
                  get(key, fault)' = get(key, fault)
           /\ ~last'.hit
           /\ ~last'.stored
           /\ IF UidOf(app_client)' # None THEN last'.remote ELSE last'.raises

C29_MutationsBypass == [][C29_Step]_vars

(* A write, create or unlink that the backend executed while the cache holds a
   search result, which get still returns. *)
C29_Witness ==
    /\ ops = 2
    /\ last.op \in Mutations
    /\ last.remote
    /\ ~last.raises
    /\ \E key \in DOMAIN written :
           /\ key \in {SearchKey(a) : a \in SearchArgs}
           /\ get(key, FALSE) = written[key].value
           /\ get(key, FALSE).type = "list"

(* C30: bounded retries and termination.  Every execute_kw call that a gateway
   operation starts, the mutating ones included, comes to an end when each
   remote attempt returns or fails.  It makes at most max_retries
   authentication attempts, then at most max_retries execute attempts, none
   before it holds a uid and none after the first execute attempt that
   returns; it ends as ExecuteReturn says for the outcomes it met, with the
   attempts ExecuteReturn counts and no more. *)
Ended == run.pc = "idle" /\ run.method # ""

C30_Bounded ==
    /\ run.auth_attempts <= max_retries
    /\ run.call_attempts <= max_retries
    /\ run.uid # None => run.auth_attempts = 0
    /\ run.call_attempts > 0 => UidOf(app_client) # None
    /\ run.pc = "authenticate" => run.call_attempts = 0
    /\ Ended =>
           LET r == ExecuteReturn(run.uid, CHOOSE m \in Models : TRUE, run.method,
                                  run.auth_outcomes, run.call_outcomes)
           IN  /\ r.raises = run.raises
               /\ r.type = run.type
               /\ r.auth_attempts = run.auth_attempts
               /\ r.call_attempts = run.call_attempts
               /\ r.slept = run.slept

C30_Step ==
    /\ (run.pc = "execute" /\ run'.call_attempts > run.call_attempts
            /\ ~run'.call_outcomes[Len(run'.call_outcomes)].raises)
           => run'.pc = "idle" /\ ~run'.raises
    /\ run.pc = "execute" => run'.pc \in {"execute", "idle"}
    /\ run.pc # "idle" =>
           /\ run'.auth_attempts + run'.call_attempts
                  <= run.auth_attempts + run.call_attempts + 1
           /\ run'.auth_attempts >= run.auth_attempts
           /\ run'.call_attempts >= run.call_attempts

C30_Terminates ==
    /\ []C30_Bounded
    /\ [][C30_Step]_vars
    /\ (run.pc # "idle") ~> (run.pc = "idle")

(* A write that ended with an error after max_retries failed execute attempts,
   having authenticated at its last authentication attempt. *)
C30_Witness ==
    /\ Ended
    /\ run.method \in Mutations
    /\ run.raises
    /\ max_retries > 1
    /\ run.auth_attempts = max_retries
    /\ run.call_attempts = max_retries

----------------------------------------------------------------------------
(* The business tools, reached through handle_tool_call (tools.py:398-537) with
   the application's client or through the FastMCP tool functions
   (mcp_tools.py:25-295), each of which builds a client and a cache manager of
   its own, so that its cache is empty and answers nothing.  The application's
   cache manager has no Redis client (http_server.py:87).  A response is the
   dict the handler returns. *)

ToolOf(method) ==
    CASE method = "search" -> "odoo_search_records"
      [] method = "read" -> "odoo_read_records"
      [] method = "search_read" -> "odoo_search_read_records"
      [] method = "create" -> "odoo_create_record"
      [] method = "write" -> "odoo_update_record"
      [] method = "unlink" -> "odoo_delete_record"
      [] method = "fields_get" -> "odoo_get_model_fields"

ToolMethods == {"search", "fields_get"} \cup Reads \cup Mutations

suggestions ==
    <<"Check that the model name is correct",
      "Verify that field names match the model schema",
      "Ensure you have proper permissions",
      "Use odoo_get_model_fields to see available fields">>

(* tools.py:507-536 *)
handle_tool_call(tool_name, raises, type) ==
    IF raises
    THEN [success |-> FALSE, error_type |-> type,
          message |-> <<"Error executing ", tool_name>>,
          suggestions |-> suggestions]
    ELSE [success |-> TRUE, message |-> <<"Done ", tool_name>>]

(* mcp_tools.py:53-67 and the six tools after it. *)
mcp_tool(tool_name, raises, type) ==
    IF raises
    THEN [success |-> FALSE, message |-> <<"Error ", tool_name>>]
    ELSE [success |-> TRUE, message |-> <<"Done ", tool_name>>]

Called(path, tool_name, response, raises) ==
    /\ ops < MaxCacheOps
    /\ ops' = ops + 1
    /\ observed' = [path |-> path, tool |-> tool_name, response |-> response,
                    failed |-> raises]
    /\ UNCHANGED <<max_retries, redis_client, run, tasks, oauth_codes, oauth_tokens,
                   oauth_clients, client_secret, now, ticks, nextId, requests,
                   grants, chain, rotated, lapsed, evicted>>

Dispatched(method) ==
    /\ Called("handle_tool_call", ToolOf(method),
              handle_tool_call(ToolOf(method), last'.raises, last'.type), last'.raises)
    /\ UNCHANGED audit

DispatchSearch ==
    /\ Working
    /\ \E a \in SearchArgs, gf \in RedisFaults :
         \E co \in CallAnswers(SearchKey(a), Cacheable(a), gf, SearchResults) :
           \E ao \in AuthAnswers, sf \in RedisFaults :
               search(a, ao, co, gf, sf) /\ Dispatched("search")

DispatchGetFields ==
    /\ Working
    /\ \E m \in Models, gf \in RedisFaults :
         \E co \in CallAnswers(_make_key("fields", <<m>>), TRUE, gf, FieldsResults) :
           \E ao \in AuthAnswers, sf \in RedisFaults :
               get_fields(m, ao, co, gf, sf) /\ Dispatched("fields_get")

DispatchForward ==
    /\ Working
    /\ \E m \in Models, f \in Reads \cup Mutations, ao \in AuthAnswers, co \in CallScripts :
         forward(m, f, ao, co) /\ Dispatched(f)

McpTool ==
    /\ Working
    /\ \E m \in Models, f \in ToolMethods, ao \in AuthScripts, co \in CallScripts :
         /\ execute_kw(get_odoo_client, m, f, ao, co)
         /\ Called("fastmcp", ToolOf(f),
                   mcp_tool(ToolOf(f), last'.ret.raises, last'.ret.type),
                   last'.ret.raises)
         /\ UNCHANGED <<local_cache, redis, written>>

ToolNext ==
    \/ DispatchSearch
    \/ DispatchGetFields
    \/ DispatchForward
    \/ McpTool

ToolSpec == Init /\ [][ToolNext]_vars

----------------------------------------------------------------------------
(* Searches whose model and order strings are any text a caller may send,
   the text "None" and texts holding the separator included, through the
   application's client. *)

KeyModels == {"res.partner", "res.partner:[]:100:0"}
KeyOrders == {Omitted, {"None"}, {"name"}, {"[]:5:0:name"}}
KeyLimits == {{5}, {100}}
KeyArgs == [model : KeyModels, domain : {Omitted}, limit : KeyLimits,
            offset : Offsets, order : KeyOrders]

KeySearch ==
    /\ Working
    /\ \E a \in KeyArgs, gf \in RedisFaults :
         \E co \in CallAnswers(SearchKey(a), Cacheable(a), gf, SearchResults) :
           \E ao \in AuthAnswers, sf \in RedisFaults :
               Worked /\ search(a, ao, co, gf, sf)

KeyNext == KeySearch

KeySpec == Init /\ [][KeyNext]_vars

(* C31: backoff does not block other requests.  While a request is in a backoff
   sleep or in a remote call, every other request in flight that has not
   finished can take a step. *)
InFlight(frame) == frame.pc \in {"ready", "get", "set"}

C31_NonBlocking ==
    \A t \in Tasks, u \in Tasks :
        (t # u /\ tasks[t].pc \in {"sleep", "attempt"} /\ InFlight(tasks[u]))
            => ENABLED TaskStep(u)

(* C32: concurrent searches on one cache key.  When identical cacheable
   searches run side by side, each one that returns gives either what the
   cache held when it looked or what the backend answered to its own execute
   attempt; none raises unless its own attempts failed; and each write into the
   cache leaves the key holding the result of the call that wrote, so that the
   last write wins. *)
Searched(frame) == frame.op = "search" /\ frame.pc = "done"

C32_Returns ==
    \A t \in Tasks :
        Searched(tasks[t]) =>
            IF tasks[t].raises
            THEN /\ ~tasks[t].hit
                 /\ \/ tasks[t].call_attempts = max_retries
                    \/ tasks[t].phase = "authenticate" /\ tasks[t].auth_attempts >= 1
            ELSE IF tasks[t].hit
            THEN tasks[t].call_attempts = 0 /\ tasks[t].value \in SearchResults
            ELSE tasks[t].call_attempts >= 1 /\ tasks[t].value \in SearchResults

C32_Step ==
    \A t \in Tasks :
        /\ (tasks'[t].hit /\ ~tasks[t].hit)
               => /\ TheKey \in DOMAIN written
                  /\ tasks'[t].value = written[TheKey].value
        /\ (tasks'[t].stored /\ ~tasks[t].stored)
               => /\ get(TheKey, FALSE)' = tasks'[t].value
                  /\ written'[TheKey].value = tasks'[t].value
        /\ (tasks'[t].pc # tasks[t].pc /\ tasks[t].pc # "idle" /\ tasks'[t].pc # "ready")
               => \A u \in Tasks \ {t} : tasks'[u] = tasks[u]

C32_LastWriteWins == []C32_Returns /\ [][C32_Step]_vars

(* Two searches both missed, both were answered by the backend, differently,
   and both wrote; the cache holds the result of one of them. *)
C32_Witness ==
    /\ \A t \in Tasks : Searched(tasks[t]) /\ ~tasks[t].hit /\ tasks[t].stored
    /\ tasks[1].value # tasks[2].value
    /\ \E t \in Tasks : get(TheKey, FALSE) = tasks[t].value

(* C33: initial authentication race.  When the first requests run side by side
   on the application's client with no uid memoized, each one that gets
   through authentication holds a uid that the backend returned, to it or to
   the request that memoized it; the memoized uid is the one written last and
   is never lost; and a request that finds a uid memoized uses it without an
   authentication attempt. *)
Authenticated(frame) ==
    \/ frame.pc = "done" /\ ~frame.raises
    \/ frame.pc \in {"attempt", "sleep", "set"} /\ frame.phase = "execute"

C33_Uids ==
    \A t \in Tasks :
        /\ Authenticated(tasks[t]) /\ ~tasks[t].hit =>
               /\ tasks[t].uid \in RemoteUids
               /\ tasks[t].uid = UidOf(app_client)
               /\ IF tasks[t].memo # None
                  THEN tasks[t].uid = tasks[t].memo
                  ELSE tasks[t].auth_attempts >= 1
        /\ tasks[t].memo # None => tasks[t].auth_attempts = 0

C33_Step ==
    /\ UidOf(app_client) # None =>
           /\ UidOf(app_client)' = UidOf(app_client)
           /\ \A t \in Tasks : tasks'[t].auth_attempts <= tasks[t].auth_attempts
    /\ UidOf(app_client)' # UidOf(app_client) =>
           \E t \in Tasks :
               /\ tasks'[t].auth_attempts = tasks[t].auth_attempts + 1
               /\ tasks'[t].uid = UidOf(app_client)'

C33_AuthenticationRace == []C33_Uids /\ [][C33_Step]_vars

(* The first two requests were in flight together with no uid memoized: both
   searches missed and wrote; one authenticated after a failed attempt and the
   other used the uid it memoized. *)
C33_Witness ==
    /\ ops = 2
    /\ \A t \in Tasks : Searched(tasks[t]) /\ ~tasks[t].hit /\ tasks[t].stored
    /\ \E t \in Tasks, u \in Tasks :
           /\ tasks[t].memo = None
           /\ tasks[t].auth_attempts > 1
           /\ tasks[u].memo = tasks[t].uid
           /\ tasks[u].uid = UidOf(app_client)

(* C34: authorization endpoint.  A GET /oauth/authorize with response_type
   code, a known client_id and a redirect_uri registered for it is answered by
   a redirect that carries a newly issued code and the supplied state; one with
   another response_type is answered with status 400; and a code is issued only
   for a request that carried response_type code. *)
Authorizing(r) ==
    /\ r.endpoint = "authorize"
    /\ r.response_type = "code"
    /\ GenerateError(r.client_id, r.redirect_uri) = ""

C34_Step ==
    /\ (observed'.endpoint = "authorize" /\ Authorizing(observed')) =>
           /\ observed'.status \in {302, 303, 307}
           /\ observed'.code \in DOMAIN oauth_codes' \ DOMAIN oauth_codes
           /\ observed'.location_state = observed'.state
    /\ (observed'.endpoint = "authorize" /\ observed'.response_type # "code") =>
           /\ observed'.status = 400
           /\ DOMAIN oauth_codes' = DOMAIN oauth_codes
    /\ (observed'.endpoint \in {"authorize", "approve"}
            /\ DOMAIN oauth_codes' # DOMAIN oauth_codes) =>
           observed'.response_type = "code"

C34_Authorize == [][C34_Step]_vars

(* C34, as the code has it: GET /oauth/authorize never issues a code.  With
   response_type = code and a known client it answers 200 (the consent
   page), with any other response_type or an unknown client 400.  The code is
   issued by POST /oauth/authorize/approve: for a known client and a redirect
   URI registered for it the answer is a 303 redirect carrying a newly
   stored code, bound to that client and URI, and the supplied state;
   otherwise the answer is 400 and no code is stored. *)
C34_ConsentStep ==
    /\ observed'.endpoint = "authorize" =>
           /\ oauth_codes' = oauth_codes
           /\ observed'.code = None
           /\ observed'.status =
                  IF /\ observed'.response_type = "code"
                     /\ get_client(observed'.client_id) # NoClient
                  THEN 200 ELSE 400
    /\ observed'.endpoint = "approve" =>
           IF GenerateError(observed'.client_id, observed'.redirect_uri) = ""
           THEN /\ observed'.status = 303
                /\ observed'.code \in DOMAIN oauth_codes' \ DOMAIN oauth_codes
                /\ oauth_codes'[observed'.code].client_id = observed'.client_id
                /\ oauth_codes'[observed'.code].redirect_uri = observed'.redirect_uri
                /\ observed'.location_state = observed'.state
           ELSE /\ observed'.status = 400
                /\ oauth_codes' = oauth_codes

C34_Consent == [][C34_ConsentStep]_vars

C34_Witness ==
    /\ "endpoint" \in DOMAIN observed
    /\ observed.endpoint = "approve"
    /\ observed.status = 303
    /\ observed.state = "xyz"
    /\ observed.code \in DOMAIN oauth_codes

(* C35: no secret leakage in rejections.  Whenever a code or a refresh token
   is presented by its confidential owner with a secret other than the stored
   one, the rejection is the one fixed reason "Invalid client secret",
   whatever the stored secret, the presented secret and the redirect URI are,
   through the manager and through /oauth/token alike; and every rejection
   reason of the manager and of the endpoint is one of a fixed list of texts,
   none of them built from a stored value. *)
Confidential(c) ==
    /\ get_client(c) # NoClient
    /\ get_client(c).token_endpoint_auth_method # "none"

Presentable == 0..nextId

RejectionReasons ==
    {"", "Invalid authorization code", "Authorization code expired", "Client ID mismatch",
     "Client not found", "Invalid client secret", "Redirect URI mismatch",
     "Invalid refresh token", "Invalid client_id",
     "Missing required parameters for authorization_code grant",
     "Missing required parameters for refresh_token grant",
     "client_secret required for confidential clients", "Unsupported grant_type"}

C35_Exchange ==
    \A k \in DOMAIN oauth_codes, u \in URIs, s \in Presentable :
        LET c == oauth_codes[k].client_id
            r == TokenRequest("authorization_code", k, u, c, s, None)
        IN  /\ ExchangeError(k, c, s, u) \in RejectionReasons
            /\ EndpointError(r) \in RejectionReasons
            /\ (/\ Confidential(c)
                /\ ~(now > oauth_codes[k].expires_at)
                /\ s # get_client(c).client_secret) =>
                   /\ ExchangeError(k, c, s, u) = "Invalid client secret"
                   /\ (s # None /\ u # "") =>
                          /\ EndpointError(r) = ""
                          /\ ManagerReturn(r).error = "Invalid client secret"

C35_Refresh ==
    \A t \in DOMAIN oauth_tokens, s \in Presentable :
        LET c == oauth_tokens[t].client_id
            rt == oauth_tokens[t].refresh_token
            r == TokenRequest("refresh_token", None, "", c, s, rt)
        IN  /\ RefreshError(rt, c, s) \in RejectionReasons
            /\ EndpointError(r) \in RejectionReasons
            /\ (Confidential(c) /\ s # get_client(c).client_secret) =>
                   /\ RefreshError(rt, c, s) = "Invalid client secret"
                   /\ s # None =>
                          /\ EndpointError(r) = ""
                          /\ ManagerReturn(r).error = "Invalid client secret"

C35_NoSecretLeak == C35_Exchange /\ C35_Refresh

C35_Witness ==
    /\ "error" \in DOMAIN observed
    /\ observed.error = "Invalid client secret"
    /\ observed.client_secret # None
    /\ observed.client_id # static_client_id
    /\ observed.client_secret # get_client(observed.client_id).client_secret

(* C36: business-operation responses.  Every response of a business tool,
   through handle_tool_call and through the FastMCP tool functions, carries a
   success flag; when the gateway operation failed, success is false and the
   response carries a message and a non-empty list of suggestions. *)
ToolCalled == "path" \in DOMAIN observed

C36_Responses ==
    ToolCalled =>
        /\ "success" \in DOMAIN observed.response
        /\ observed.response.success = ~observed.failed
        /\ observed.failed =>
               /\ "message" \in DOMAIN observed.response
               /\ "suggestions" \in DOMAIN observed.response
               /\ Len(observed.response.suggestions) > 0

(* C37: a rejected exchange that is not an expiry does not consume the code.
   An exchange rejected for a client id mismatch, an unknown client, a wrong
   secret or a redirect URI mismatch leaves the code store and the token store
   as they were, and right after it the same code presented by its owner with
   the stored secret and the stored redirect URI is accepted, as long as the
   code has not expired. *)
Recoverable ==
    {"Client ID mismatch", "Client not found", "Invalid client secret",
     "Redirect URI mismatch"}

C37_Step ==
    ("error" \in DOMAIN observed' /\ observed'.error \in Recoverable) =>
        /\ oauth_codes' = oauth_codes
        /\ oauth_tokens' = oauth_tokens
        /\ observed'.code \in DOMAIN oauth_codes'

C37_Retry ==
    ("error" \in DOMAIN observed /\ observed.error \in Recoverable) =>
        LET k == observed.code
            c == oauth_codes[k].client_id
        IN  /\ k \in DOMAIN oauth_codes
            /\ ~(now > oauth_codes[k].expires_at)
            /\ ExchangeError(k, c, get_client(c).client_secret,
                             oauth_codes[k].redirect_uri) = ""
            /\ ENABLED exchange_code_for_token(k, c, get_client(c).client_secret,
                                               oauth_codes[k].redirect_uri)

C37_RejectionKeepsCode == []C37_Retry /\ [][C37_Step]_vars

C37_Witness ==
    /\ "error" \in DOMAIN observed
    /\ observed.error \in {"Invalid client secret", "Redirect URI mismatch"}
    /\ observed.code \in DOMAIN oauth_codes
    /\ oauth_tokens # <<>>

(* C38: refresh does not check expiry.  The owner of a stored token record
   whose expires_at has passed still refreshes it: the call is accepted and
   stores a new record that validate_token accepts.  Once validate_token or
   cleanup_expired has removed an expired record, the refresh token it held is
   refused with "Invalid refresh token" whoever presents it. *)
C38_ExpiredRefreshes ==
    \A t \in DOMAIN oauth_tokens :
        now > oauth_tokens[t].expires_at =>
            LET c == oauth_tokens[t].client_id
                r == oauth_tokens[t].refresh_token
                s == get_client(c).client_secret
                ret == RefreshReturn(r, c, s)
                after == TokensAfterRefresh(r, c, s)
            IN  /\ ~TokenValid(t)
                /\ ret.error = ""
                /\ ret.token.access_token \in DOMAIN after \ DOMAIN oauth_tokens
                /\ ~(now > after[ret.token.access_token].expires_at)
                /\ after[ret.token.access_token].refresh_token = ret.token.refresh_token
                /\ ret.token.refresh_token # r

C38_Evicted ==
    (ValidateCall \/ CleanupCall) =>
        \A t \in DOMAIN oauth_tokens \ DOMAIN oauth_tokens' :
            /\ now > oauth_tokens[t].expires_at
            /\ \A r \in Ids, c \in ClientIds, s \in Presented :
                   r = oauth_tokens[t].refresh_token =>
                       (RefreshError(r, c, s) = "Invalid refresh token")'

C38_RefreshIgnoresExpiry == []C38_ExpiredRefreshes /\ [][C38_Evicted]_vars

(* A token refreshed after its expiry is stored and valid. *)
C38_Witness ==
    \E p \in rotated, t \in DOMAIN oauth_tokens :
        /\ chain[t].by = "refresh"
        /\ chain[t].code = chain[p[1]].code
        /\ chain[t].minted_at > chain[p[1]].minted_at + token_expiry_seconds
        /\ TokenValid(t)

(* C39: clients outlive their codes and tokens.  The client_id of every stored
   code and of every stored token record resolves through get_client, no step
   removes or replaces a registered client, and neither an exchange nor a
   refresh, whatever is presented, is rejected with "Client not found". *)
C39_Resolves ==
    /\ \A k \in DOMAIN oauth_codes : get_client(oauth_codes[k].client_id) # NoClient
    /\ \A t \in DOMAIN oauth_tokens : get_client(oauth_tokens[t].client_id) # NoClient
    /\ \A c \in Presented, s \in Presented :
           /\ \A k \in Codes, u \in URIs :
                  ExchangeError(k, c, s, u) # "Client not found"
           /\ \A r \in RefreshTokens :
                  RefreshError(r, c, s) # "Client not found"

C39_Kept ==
    \A c \in DOMAIN oauth_clients :
        c \in DOMAIN oauth_clients' /\ oauth_clients'[c] = oauth_clients[c]

C39_ClientsOutlive == []C39_Resolves /\ [][C39_Kept]_vars

(* A dynamic client owns a stored code while a token is stored. *)
C39_Witness ==
    /\ \E k \in DOMAIN oauth_codes : oauth_codes[k].client_id \in DOMAIN oauth_clients
    /\ oauth_tokens # <<>>

(* C40: cache keys separate different requests.  Two cacheable searches whose
   remote requests differ never have the same cache key, so that whenever a
   search is answered from the cache, every cacheable search with that key
   sends the remote request of the search that was answered. *)
C40_KeysSeparate ==
    \A a \in KeyArgs, b \in KeyArgs :
        (/\ Cacheable(a) /\ Cacheable(b)
         /\ SearchKey(a) \in DOMAIN written
         /\ SearchRequest(a) # SearchRequest(b))
            => SearchKey(b) # SearchKey(a)

====
